---- MODULE Spec2Model ----
(***************************************************************************)
(* A model of mbtiles-go: the tile format sniffer (tile.go) and the        *)
(* read-only container accessor (mbtiles.go, current version in            *)
(* unnamed/part_002).                                                      *)
(*                                                                         *)
(* The container file is the environment: it is chosen in Init and never   *)
(* written (the package only reads).  The model follows one handle from    *)
(* the caller's zero value through Open, reads and Close.  Every exported  *)
(* function is one action that runs the whole function body.               *)
(***************************************************************************)
EXTENDS Integers, Sequences, FiniteSets, TLC

(***************************************************************************)
(* Bounds of the model.                                                    *)
(***************************************************************************)
\* longest metadata table enumerated in Init
MaxRows == 2
\* longest tiles table enumerated in Init
MaxTiles == 2

(***************************************************************************)
(* Byte sequences.  Go slices are 0-based, TLA+ sequences 1-based.         *)
(***************************************************************************)
At(data, i) == data[i + 1]

\* bytes.HasPrefix
HasPrefix(data, pattern) ==
    /\ Len(data) >= Len(pattern)
    /\ \A i \in 1..Len(pattern) : data[i] = pattern[i]

\* A uint32 is kept as its two 16-bit halves (the checker's integers are
\* 32-bit signed).  U32(n) is the uint32 of a number below 2^31.
U32(n) == [hi |-> n \div 65536, lo |-> n % 65536]

\* the four bytes read in little-endian order
LittleEndianUint32(data, i) ==
    [hi |-> At(data, i + 3) * 256 + At(data, i + 2),
     lo |-> At(data, i + 1) * 256 + At(data, i)]

\* binary.BigEndian.Uint32(data[i:i+4])
BigEndianUint32(data, i) ==
    [hi |-> At(data, i) * 256 + At(data, i + 1),
     lo |-> At(data, i + 2) * 256 + At(data, i + 3)]

\* the two bytes read in big-endian order
BigEndianUint16(data, i) == At(data, i) * 256 + At(data, i + 1)

\* binary.LittleEndian.Uint16(b) reads b[0] and b[1]
LittleEndianUint16(data, i) == At(data, i) + At(data, i + 1) * 256

(***************************************************************************)
(* tile.go: TileFormat                                                     *)
(***************************************************************************)
UNKNOWN == 0
GZIP == 1
ZLIB == 2
PNG == 3
JPG == 4
PBF == 5
WEBP == 6

TileFormats == {UNKNOWN, GZIP, ZLIB, PNG, JPG, PBF, WEBP}

\* a MimeType that knows the image formats only
MimeTypeOfImage(t) ==
    CASE t = PNG -> "image/png"
      [] t = JPG -> "image/jpeg"
      [] t = WEBP -> "image/webp"
      [] OTHER -> ""

\* TileFormat.MimeType
MimeType(t) ==
    CASE t = PNG -> "image/png"
      [] t = JPG -> "image/jpeg"
      [] t = PBF -> "application/x-protobuf"
      [] t = WEBP -> "image/webp"
      [] OTHER -> ""

\* formatPrefixes with the PNG signature cut to its first four bytes
formatPrefixesShortPng ==
    (GZIP :> <<31, 139>>)
    @@ (ZLIB :> <<120, 156>>)
    @@ (PNG :> <<137, 80, 78, 71>>)
    @@ (JPG :> <<255, 216, 255>>)
    @@ (WEBP :> <<82, 73, 70, 70>>)

\* var formatPrefixes
formatPrefixes ==
    (GZIP :> <<31, 139>>)
    @@ (ZLIB :> <<120, 156>>)
    @@ (PNG :> <<137, 80, 78, 71, 13, 10, 26, 10>>)
    @@ (JPG :> <<255, 216, 255>>)
    @@ (WEBP :> <<82, 73, 70, 70>>)

(***************************************************************************)
(* Results of the sniffer are records [val, err, fault]: the returned      *)
(* value, the returned error ("" is nil) and the run-time panic, if any    *)
(* ("" is none).                                                           *)
(***************************************************************************)
NoErr == ""
NoFault == ""

ErrFormat == "could not detect tile format"
ErrPngShort == "insufficient length to detect png image size"
ErrWebpShort == "insufficient length to detect webp image size"
ErrJpeg == "jpeg: invalid or truncated header"
FaultSlice == "runtime error: slice bounds out of range"
FaultIndex == "runtime error: index out of range"

Ok(v) == [val |-> v, err |-> NoErr, fault |-> NoFault]
Fail(v, e) == [val |-> v, err |-> e, fault |-> NoFault]
Panic(f) == [val |-> U32(0), err |-> NoErr, fault |-> f]

\* detectTileFormat ranges over a Go map, whose iteration order is not
\* fixed: every format whose prefix matches is a possible result.
detectTileFormat(data) ==
    LET matches == {f \in DOMAIN formatPrefixes : HasPrefix(data, formatPrefixes[f])}
    IN  IF matches = {} THEN {Fail(UNKNOWN, ErrFormat)}
        ELSE {Ok(f) : f \in matches}

(***************************************************************************)
(* image/jpeg DecodeConfig: decoder.decode(r, configOnly = true) and then  *)
(* the test of d.nComp.  The result is the width, or -1 for an error       *)
(* (every error of the decoder is an error of detectTileSize).  p is the   *)
(* number of bytes read so far; reading past the end of the data is the    *)
(* error io.ErrUnexpectedEOF.                                              *)
(***************************************************************************)
\* processSOF, the loop over the components: tmp[0] is data[q]
sofComponentsOk(data, q, nComp) ==
    LET c(i) == At(data, q + 6 + 3 * i)
        hv(i) == At(data, q + 7 + 3 * i)
        tq(i) == At(data, q + 8 + 3 * i)
        h(i) == hv(i) \div 16
        v(i) == hv(i) % 16
    IN  \A i \in 0..(nComp - 1) :
           \* "repeated component identifier"
           /\ \A j \in 0..(i - 1) : c(i) # c(j)
           \* "bad Tq value": maxTq is 3
           /\ tq(i) <= 3
           \* "luma/chroma subsampling ratio", errUnsupportedSubsamplingRatio
           /\ h(i) \in {1, 2, 4} /\ v(i) \in {1, 2, 4}
           /\ \/ nComp = 1
              \/ /\ nComp = 3
                 /\ CASE i = 0 -> v(0) # 4
                      [] i = 1 -> h(0) \in {1, 2, 4} /\ v(0) \in {1, 2, 4}
                                  /\ h(0) % h(1) = 0 /\ v(0) % v(1) = 0
                      [] OTHER -> h(1) = h(2) /\ v(1) = v(2)
              \/ /\ nComp = 4
                 /\ CASE i = 0 -> hv(0) \in {17, 34}
                      [] i \in {1, 2} -> hv(i) = 17
                      [] OTHER -> h(0) = h(3) /\ v(0) = v(3)

RECURSIVE JpegWalk(_, _, _, _, _)
RECURSIVE JpegMarker(_, _, _, _, _, _)

\* one turn of the loop over the segments, from readFull(d.tmp[:2])
JpegWalk(data, p, nComp, width, jfif) ==
    IF p + 2 > Len(data) THEN -1
    \* "for d.tmp[0] != 0xff": skip to the next ff, one byte at a time
    ELSE IF At(data, p) # 255 THEN JpegWalk(data, p + 1, nComp, width, jfif)
    \* "\xff\x00" is extraneous data
    ELSE IF At(data, p + 1) = 0 THEN JpegWalk(data, p + 2, nComp, width, jfif)
    ELSE JpegMarker(data, p + 2, At(data, p + 1), nComp, width, jfif)

\* the turn of the loop from "for marker == 0xff"
JpegMarker(data, p, marker, nComp, width, jfif) ==
    \* fill bytes before the marker
    IF marker = 255
    THEN IF p >= Len(data) THEN -1
         ELSE JpegMarker(data, p + 1, At(data, p), nComp, width, jfif)
    \* eoiMarker ends the loop: "missing SOS marker"
    ELSE IF marker = 217 THEN -1
    \* rst0Marker..rst7Marker have no length
    ELSE IF marker >= 208 /\ marker <= 215 THEN JpegWalk(data, p, nComp, width, jfif)
    ELSE IF p + 2 > Len(data) THEN -1
    ELSE LET n == At(data, p) * 256 + At(data, p + 1) - 2
             q == p + 2
         IN  \* "short segment length"
             IF n < 0 THEN -1
             \* sof0Marker, sof1Marker, sof2Marker: processSOF(n)
             ELSE IF marker \in {192, 193, 194}
                  THEN IF \/ nComp # 0
                          \/ n \notin {9, 15, 18}
                          \/ q + n > Len(data)
                          \/ At(data, q) # 8
                          \/ At(data, q + 5) # (n - 6) \div 3
                          \/ ~sofComponentsOk(data, q, (n - 6) \div 3)
                       THEN -1
                       ELSE LET w == At(data, q + 3) * 256 + At(data, q + 4)
                            IN  \* "if configOnly && d.jfif { return nil, err }"
                                IF jfif THEN w
                                ELSE JpegWalk(data, q + n, (n - 6) \div 3, w, jfif)
             \* sosMarker: decode returns, and DecodeConfig tests d.nComp
             \* ("missing SOF marker")
             ELSE IF marker = 218 THEN (IF nComp = 0 THEN -1 ELSE width)
             ELSE IF q + n > Len(data) THEN -1
             \* app0Marker: processApp0Marker assigns d.jfif when n >= 5
             ELSE IF marker = 224
                  THEN JpegWalk(data, q + n, nComp, width,
                                IF n < 5 THEN jfif
                                ELSE SubSeq(data, q + 1, q + 5) = <<74, 70, 73, 70, 0>>)
             \* dhtMarker, dqtMarker, driMarker, app1Marker..app15Marker,
             \* comMarker: ignore(n)
             ELSE IF marker \in {196, 219, 221, 254} \/ (marker >= 225 /\ marker <= 239)
                  THEN JpegWalk(data, q + n, nComp, width, jfif)
             \* "unknown marker"
             ELSE -1

jpegDecodeConfigWidth(data) ==
    \* "missing SOI marker"
    IF Len(data) < 2 \/ At(data, 0) # 255 \/ At(data, 1) # 216 THEN -1
    ELSE JpegWalk(data, 2, 0, -1, FALSE)

\* A []byte is a record: the bytes of the slice (len of them) and what its
\* backing array holds after them, up to the capacity (spare).
Cap(data) == Len(data.bytes) + Len(data.spare)

\* data[:cap(data)]
Array(data) == data.bytes \o data.spare

\* detectTileSize without "case PBF": only GZIP is given the fixed size
detectTileSizeGzipOnly(format, data) ==
    CASE format = GZIP -> Ok(U32(512))
      [] format = PNG ->
            IF Len(data.bytes) < 20 THEN Fail(U32(0), ErrPngShort)
            ELSE Ok(BigEndianUint32(data.bytes, 16))
      [] format = JPG ->
            LET w == jpegDecodeConfigWidth(data.bytes)
            IN  IF w < 0 THEN Fail(U32(0), ErrJpeg) ELSE Ok(U32(w))
      [] format = WEBP ->
            \* encType := data[12:16] is a slice expression: it needs cap >= 16
            IF Cap(data) < 16 THEN Panic(FaultSlice)
            ELSE LET encType == SubSeq(Array(data), 13, 16)
                 IN  CASE HasPrefix(encType, <<86, 80, 56, 32>>) ->
                            IF Len(data.bytes) < 27 THEN Fail(U32(0), ErrWebpShort)
                            \* data[27] needs len >= 28
                            ELSE IF Len(data.bytes) < 28 THEN Panic(FaultIndex)
                            ELSE Ok(U32((At(data.bytes, 27) % 64) * 256 + At(data.bytes, 26)))
                       [] HasPrefix(encType, <<86, 80, 56, 76>>) ->
                            IF Len(data.bytes) < 23 THEN Fail(U32(0), ErrWebpShort)
                            ELSE Ok(U32((LittleEndianUint16(data.bytes, 21) % 512) + 1))
                       [] HasPrefix(encType, <<86, 80, 56, 88>>) ->
                            IF Len(data.bytes) < 26 THEN Fail(U32(0), ErrWebpShort)
                            \* data[24:27] needs cap >= 27
                            ELSE IF Cap(data) < 27 THEN Panic(FaultSlice)
                            ELSE Ok(U32(LittleEndianUint16(data.bytes, 24) + 1))
                       [] OTHER -> Ok(U32(0))
      [] OTHER -> Ok(U32(0))

\* detectTileSize with an error for whatever it has no width rule for
detectTileSizeStrict(format, data) ==
    CASE format = GZIP -> Ok(U32(512))
      [] format = PBF -> Ok(U32(512))
      [] format = PNG ->
            IF Len(data.bytes) < 20 THEN Fail(U32(0), ErrPngShort)
            ELSE Ok(BigEndianUint32(data.bytes, 16))
      [] format = JPG ->
            LET w == jpegDecodeConfigWidth(data.bytes)
            IN  IF w < 0 THEN Fail(U32(0), ErrJpeg) ELSE Ok(U32(w))
      [] format = WEBP ->
            \* encType := data[12:16] is a slice expression: it needs cap >= 16
            IF Cap(data) < 16 THEN Panic(FaultSlice)
            ELSE LET encType == SubSeq(Array(data), 13, 16)
                 IN  CASE HasPrefix(encType, <<86, 80, 56, 32>>) ->
                            IF Len(data.bytes) < 27 THEN Fail(U32(0), ErrWebpShort)
                            \* data[27] needs len >= 28
                            ELSE IF Len(data.bytes) < 28 THEN Panic(FaultIndex)
                            ELSE Ok(U32((At(data.bytes, 27) % 64) * 256 + At(data.bytes, 26)))
                       [] HasPrefix(encType, <<86, 80, 56, 76>>) ->
                            IF Len(data.bytes) < 23 THEN Fail(U32(0), ErrWebpShort)
                            ELSE Ok(U32((LittleEndianUint16(data.bytes, 21) % 512) + 1))
                       [] HasPrefix(encType, <<86, 80, 56, 88>>) ->
                            IF Len(data.bytes) < 26 THEN Fail(U32(0), ErrWebpShort)
                            \* data[24:27] needs cap >= 27
                            ELSE IF Cap(data) < 27 THEN Panic(FaultSlice)
                            ELSE Ok(U32(LittleEndianUint16(data.bytes, 24) + 1))
                       [] OTHER -> Fail(U32(0), ErrFormat)
      [] OTHER -> Fail(U32(0), ErrFormat)

\* detectTileSize
detectTileSize(format, data) ==
    CASE format = GZIP -> Ok(U32(512))
      [] format = PBF -> Ok(U32(512))
      [] format = PNG ->
            IF Len(data.bytes) < 20 THEN Fail(U32(0), ErrPngShort)
            ELSE Ok(BigEndianUint32(data.bytes, 16))
      [] format = JPG ->
            LET w == jpegDecodeConfigWidth(data.bytes)
            IN  IF w < 0 THEN Fail(U32(0), ErrJpeg) ELSE Ok(U32(w))
      [] format = WEBP ->
            \* encType := data[12:16] is a slice expression: it needs cap >= 16
            IF Cap(data) < 16 THEN Panic(FaultSlice)
            ELSE LET encType == SubSeq(Array(data), 13, 16)
                 IN  CASE HasPrefix(encType, <<86, 80, 56, 32>>) ->
                            IF Len(data.bytes) < 27 THEN Fail(U32(0), ErrWebpShort)
                            \* data[27] needs len >= 28
                            ELSE IF Len(data.bytes) < 28 THEN Panic(FaultIndex)
                            ELSE Ok(U32((At(data.bytes, 27) % 64) * 256 + At(data.bytes, 26)))
                       [] HasPrefix(encType, <<86, 80, 56, 76>>) ->
                            IF Len(data.bytes) < 23 THEN Fail(U32(0), ErrWebpShort)
                            ELSE Ok(U32((LittleEndianUint16(data.bytes, 21) % 512) + 1))
                       [] HasPrefix(encType, <<86, 80, 56, 88>>) ->
                            IF Len(data.bytes) < 26 THEN Fail(U32(0), ErrWebpShort)
                            \* data[24:27] needs cap >= 27
                            ELSE IF Cap(data) < 27 THEN Panic(FaultSlice)
                            ELSE Ok(U32(LittleEndianUint16(data.bytes, 24) + 1))
                       [] OTHER -> Ok(U32(0))
      [] OTHER -> Ok(U32(0))

(***************************************************************************)
(* Text.  A Go string is a sequence of one-character strings, so that the   *)
(* conversions below work on the characters as strconv and strings do.     *)
(***************************************************************************)
Digits == {"0", "1", "2", "3", "4", "5", "6", "7", "8", "9"}

DigitVal(c) ==
    CASE c = "0" -> 0 [] c = "1" -> 1 [] c = "2" -> 2 [] c = "3" -> 3
      [] c = "4" -> 4 [] c = "5" -> 5 [] c = "6" -> 6 [] c = "7" -> 7
      [] c = "8" -> 8 [] c = "9" -> 9

AllDigits(s) == \A i \in 1..Len(s) : s[i] \in Digits

RECURSIVE DigitsToInt(_)
DigitsToInt(s) ==
    IF s = <<>> THEN 0
    ELSE DigitsToInt(SubSeq(s, 1, Len(s) - 1)) * 10 + DigitVal(s[Len(s)])

\* strconv.Atoi: an optional sign, then one or more decimal digits
Atoi(s) ==
    LET signed == s # <<>> /\ s[1] \in {"+", "-"}
        body == IF signed THEN Tail(s) ELSE s
    IN  IF body = <<>> \/ ~AllDigits(body) THEN [ok |-> FALSE, v |-> 0]
        ELSE [ok |-> TRUE,
              v |-> IF signed /\ s[1] = "-" THEN 0 - DigitsToInt(body)
                    ELSE DigitsToInt(body)]

\* unicode.IsSpace.  A character that a string of this module cannot hold
\* is written as its code point.
WhiteSpace ==
    {" ", "\t", "\n", "\f", "\r", "U+000B", "U+0085", "U+00A0", "U+1680",
     "U+2000", "U+2001", "U+2002", "U+2003", "U+2004", "U+2005", "U+2006",
     "U+2007", "U+2008", "U+2009", "U+200A", "U+2028", "U+2029", "U+202F",
     "U+205F", "U+3000"}

\* strings.TrimSpace
RECURSIVE TrimLeft(_)
TrimLeft(s) == IF s # <<>> /\ s[1] \in WhiteSpace THEN TrimLeft(Tail(s)) ELSE s

RECURSIVE TrimRight(_)
TrimRight(s) ==
    IF s # <<>> /\ s[Len(s)] \in WhiteSpace THEN TrimRight(SubSeq(s, 1, Len(s) - 1)) ELSE s

TrimSpace(s) == TrimRight(TrimLeft(s))

\* strings.Split(str, ","): the empty string splits into one empty token
RECURSIVE Split(_)
Split(s) ==
    LET commas == {i \in 1..Len(s) : s[i] = ","}
    IN  IF commas = {} THEN <<s>>
        ELSE LET i == CHOOSE j \in commas : \A k \in commas : j <= k
             IN  <<SubSeq(s, 1, i - 1)>> \o Split(SubSeq(s, i + 1, Len(s)))

(***************************************************************************)
(* A float64 is kept as the exact value of the text it was read from:      *)
(* mant * 2^e2 * 5^e5 with mant divisible by neither 2 nor 5, so that "1", *)
(* "1.0", "+1", "10e-1" and "0x1p0" are the same number and "1.5" is not   *)
(* "15"; or it is an infinity or a NaN.  The rounding of the value to 53   *)
(* bits is not kept.  The integers of the checker have 32 bits: a mantissa *)
(* is at most 2147483647 here.                                             *)
(***************************************************************************)
RECURSIVE Normalize(_, _, _, _)
Normalize(neg, mant, e2, e5) ==
    IF mant = 0 THEN [kind |-> "num", neg |-> FALSE, mant |-> 0, e2 |-> 0, e5 |-> 0]
    ELSE IF mant % 2 = 0 THEN Normalize(neg, mant \div 2, e2 + 1, e5)
    ELSE IF mant % 5 = 0 THEN Normalize(neg, mant \div 5, e2, e5 + 1)
    ELSE [kind |-> "num", neg |-> neg, mant |-> mant, e2 |-> e2, e5 |-> e5]

Float(n) == Normalize(n < 0, IF n < 0 THEN 0 - n ELSE n, 0, 0)

Inf(neg) == [kind |-> "inf", neg |-> neg, mant |-> 0, e2 |-> 0, e5 |-> 0]
NaN == [kind |-> "nan", neg |-> FALSE, mant |-> 0, e2 |-> 0, e5 |-> 0]

UpperCase ==
    <<"A", "B", "C", "D", "E", "F", "G", "H", "I", "J", "K", "L", "M",
      "N", "O", "P", "Q", "R", "S", "T", "U", "V", "W", "X", "Y", "Z">>
LowerCase ==
    <<"a", "b", "c", "d", "e", "f", "g", "h", "i", "j", "k", "l", "m",
      "n", "o", "p", "q", "r", "s", "t", "u", "v", "w", "x", "y", "z">>

\* strconv: lower(c)
lower(c) ==
    IF \E k \in 1..26 : UpperCase[k] = c
    THEN LowerCase[CHOOSE k \in 1..26 : UpperCase[k] = c]
    ELSE c

HexLetters == {"a", "b", "c", "d", "e", "f"}

HexVal(c) ==
    IF c \in Digits THEN DigitVal(c)
    ELSE CHOOSE k \in 10..15 : LowerCase[k - 9] = lower(c)

\* the digits s read in the base
RECURSIVE ToInt(_, _)
ToInt(s, base) ==
    IF s = <<>> THEN 0
    ELSE ToInt(SubSeq(s, 1, Len(s) - 1), base) * base + HexVal(s[Len(s)])

RECURSIVE Pow(_, _)
Pow(b, k) == IF k <= 0 THEN 1 ELSE b * Pow(b, k - 1)

\* the number of digits of m > 0 in the base
RECURSIVE NumDigits(_, _)
NumDigits(m, base) == IF m < base THEN 1 ELSE 1 + NumDigits(m \div base, base)

\* strconv: special(s) with all of s consumed: "Inf" and "Infinity" with an
\* optional sign, "NaN" without one, in any case of the letters
special(s) ==
    LET signed == s # <<>> /\ s[1] \in {"+", "-"}
        rest == IF signed THEN Tail(s) ELSE s
        low == [i \in 1..Len(rest) |-> lower(rest[i])]
    IN  IF low \in {<<"i", "n", "f">>, <<"i", "n", "f", "i", "n", "i", "t", "y">>}
        THEN "inf"
        ELSE IF ~signed /\ low = <<"n", "a", "n">> THEN "nan"
        ELSE "none"

\* strconv: underscoreOK(s), saw being the kind of the last character
RECURSIVE underscoreScan(_, _, _, _)
underscoreScan(s, i, saw, hex) ==
    IF i > Len(s) THEN saw # "_"
    ELSE IF s[i] \in Digits \/ (hex /\ lower(s[i]) \in HexLetters)
         THEN underscoreScan(s, i + 1, "0", hex)
    ELSE IF s[i] = "_" THEN saw = "0" /\ underscoreScan(s, i + 1, "_", hex)
    ELSE saw # "_" /\ underscoreScan(s, i + 1, "!", hex)

underscoreOK(s0) ==
    LET s == IF s0 # <<>> /\ s0[1] \in {"+", "-"} THEN Tail(s0) ELSE s0
        prefix == Len(s) >= 2 /\ s[1] = "0" /\ lower(s[2]) \in {"b", "o", "x"}
    IN  underscoreScan(s, IF prefix THEN 3 ELSE 1, IF prefix THEN "0" ELSE "^",
                       prefix /\ lower(s[2]) = "x")

\* "if e < 10000 { e = e*10 + int(s[i]) - '0' }" over the digits of the
\* exponent
RECURSIVE ExpValue(_, _, _)
ExpValue(digits, i, e) ==
    IF i > Len(digits) THEN e
    ELSE ExpValue(digits, i + 1, IF e < 10000 THEN e * 10 + DigitVal(digits[i]) ELSE e)

\* the float64 for mant * 10^x: ErrRange from half an ulp above the largest
\* float64 (1.797693134862315807e308), zero below half the smallest
\* (2.470328229206232721e-324).  The mantissa is compared with the first nd
\* digits of the limit; one of 10 digits is below 2470328229.
DecimalFloat(neg, mant, x) ==
    LET nd == NumDigits(mant, 10)
        E == nd - 1 + x
    IN  IF mant = 0 THEN [ok |-> TRUE, v |-> Float(0)]
        ELSE IF E > 308
                \/ (E = 308 /\ mant > (IF nd = 10 THEN 1797693134
                                       ELSE 179769313 \div Pow(10, 9 - nd)))
             THEN [ok |-> FALSE, v |-> Inf(neg)]
        ELSE IF E < -324
                \/ (E = -324 /\ (nd = 10 \/ mant <= 247032822 \div Pow(10, 9 - nd)))
             THEN [ok |-> TRUE, v |-> Float(0)]
        ELSE [ok |-> TRUE, v |-> Normalize(neg, mant, x, x)]

\* the float64 for mant * 2^y
HexFloat(neg, mant, y) ==
    LET bits == NumDigits(mant, 2)
    IN  IF mant = 0 THEN [ok |-> TRUE, v |-> Float(0)]
        ELSE IF bits + y > 1024 THEN [ok |-> FALSE, v |-> Inf(neg)]
        ELSE IF bits + y <= -1075 \/ (bits + y = -1074 /\ mant = Pow(2, bits - 1))
             THEN [ok |-> TRUE, v |-> Float(0)]
        ELSE [ok |-> TRUE, v |-> Normalize(neg, mant, y, 0)]

\* a sign starts s
Signed(s) == s # <<>> /\ s[1] \in {"+", "-"}

\* the first position of s that holds the letter c in either case, past
\* the end of s when none does
RECURSIVE IndexOf(_, _, _)
IndexOf(s, c, i) ==
    IF i > Len(s) \/ lower(s[i]) = c THEN i ELSE IndexOf(s, c, i + 1)

\* the digits of s in the base, "." and "_" left out
MantDigits(s, hex) ==
    SelectSeq(s, LAMBDA c : c \in Digits \/ (hex /\ lower(c) \in HexLetters))

\* strconv: readFloat reads the mantissa: digits with at most one "." and
\* with "_", at least one digit
mantissaOK(mantText, hex) ==
    /\ Cardinality({i \in 1..Len(mantText) : mantText[i] = "."}) <= 1
    /\ Len(MantDigits(mantText, hex)) + Cardinality({i \in 1..Len(mantText) : mantText[i] \in {".", "_"}})
          = Len(mantText)
    /\ MantDigits(mantText, hex) # <<>>

\* strconv: readFloat reads the exponent: an optional sign, a digit, then
\* digits and "_"
exponentOK(expBody) ==
    /\ expBody # <<>> /\ expBody[1] \in Digits
    /\ \A i \in 1..Len(expBody) : expBody[i] \in Digits \cup {"_"}

\* the value of the exponent text
exponent(expText) ==
    IF Signed(expText) /\ expText[1] = "-"
    THEN 0 - ExpValue(SelectSeq(Tail(expText), LAMBDA c : c \in Digits), 1, 0)
    ELSE ExpValue(SelectSeq(expText, LAMBDA c : c \in Digits), 1, 0)

\* the number read from a mantissa whose "." is at position dot, with the
\* exponent e
floatValue(neg, hex, mantText, dot, e) ==
    IF hex
    THEN HexFloat(neg, ToInt(MantDigits(mantText, hex), 16),
                  e - 4 * Len(MantDigits(SubSeq(mantText, dot + 1, Len(mantText)), hex)))
    ELSE DecimalFloat(neg, ToInt(MantDigits(mantText, hex), 10),
                      e - Len(MantDigits(SubSeq(mantText, dot + 1, Len(mantText)), hex)))

\* strconv: readFloat on the text after the sign and the base prefix, with
\* the exponent letter ("e"; "p" after a hexadecimal mantissa, which must
\* have one) at position mark
readParts(tok, neg, hex, body, mark) ==
    IF mark > Len(body)
    THEN IF hex \/ ~mantissaOK(body, hex) THEN [ok |-> FALSE, v |-> Float(0)]
         ELSE floatValue(neg, hex, body, IndexOf(body, ".", 1), 0)
    ELSE IF ~mantissaOK(SubSeq(body, 1, mark - 1), hex)
            \/ ~exponentOK(IF Signed(SubSeq(body, mark + 1, Len(body)))
                           THEN SubSeq(body, mark + 2, Len(body))
                           ELSE SubSeq(body, mark + 1, Len(body)))
         THEN [ok |-> FALSE, v |-> Float(0)]
    ELSE floatValue(neg, hex, SubSeq(body, 1, mark - 1),
                    IndexOf(SubSeq(body, 1, mark - 1), ".", 1),
                    exponent(SubSeq(body, mark + 1, Len(body))))

\* strconv: readFloat after the sign: the base prefix "0x" counts when a
\* character follows it
readFloat(tok, neg, unsigned) ==
    IF Len(unsigned) >= 3 /\ unsigned[1] = "0" /\ lower(unsigned[2]) = "x"
    THEN readParts(tok, neg, TRUE, SubSeq(unsigned, 3, Len(unsigned)),
                   IndexOf(SubSeq(unsigned, 3, Len(unsigned)), "p", 1))
    ELSE readParts(tok, neg, FALSE, unsigned, IndexOf(unsigned, "e", 1))

\* strconv.ParseFloat(tok, 64): special, or readFloat with all of tok
\* consumed and underscoreOK when tok has a "_"
ParseFloat(tok) ==
    IF special(tok) = "inf" THEN [ok |-> TRUE, v |-> Inf(Signed(tok) /\ tok[1] = "-")]
    ELSE IF special(tok) = "nan" THEN [ok |-> TRUE, v |-> NaN]
    ELSE IF (\E i \in 1..Len(tok) : tok[i] = "_") /\ ~underscoreOK(tok)
         THEN [ok |-> FALSE, v |-> Float(0)]
    ELSE readFloat(tok, Signed(tok) /\ tok[1] = "-", IF Signed(tok) THEN Tail(tok) ELSE tok)

\* parseFloats: one number per comma-delimited token, first error wins
RECURSIVE parseFloatsFrom(_, _, _)
RECURSIVE appendFloat(_, _, _, _)
parseFloatsFrom(split, i, out) ==
    IF i > Len(split) THEN [ok |-> TRUE, v |-> out]
    ELSE appendFloat(split, i, out, ParseFloat(TrimSpace(split[i])))

\* "if err != nil { return nil, err }; out = append(out, value)"
appendFloat(split, i, out, value) ==
    IF ~value.ok THEN [ok |-> FALSE, v |-> out]
    ELSE parseFloatsFrom(split, i + 1, Append(out, value.v))

parseFloats(str) == parseFloatsFrom(Split(str), 1, <<>>)

(***************************************************************************)
(* The container file.                                                     *)
(*                                                                         *)
(* A stored metadata value is NULL, a BLOB, a text, or a text holding a    *)
(* JSON document (an integer or a real in a text column is stored as its   *)
(* text).  encoding/json is a library: a JSON text is kept as the document *)
(* it decodes to (doc); any other text is not a JSON object.               *)
(***************************************************************************)
NoDoc == [kind |-> "invalid", fields |-> <<>>]

Null == [t |-> "null", s |-> <<>>, doc |-> NoDoc]
Text(s) == [t |-> "text", s |-> s, doc |-> NoDoc]
Blob(s) == [t |-> "blob", s |-> s, doc |-> NoDoc]
JsonText(kind, fields) ==
    [t |-> "json", s |-> <<"j", "s", "o", "n">>, doc |-> [kind |-> kind, fields |-> fields]]

\* values of the metadata map (Go's interface{}): the dynamic type and the
\* value, in the field of that type (i: int, s: string, f: float64s)
IntVal(n) == [ty |-> "int", i |-> n, s |-> <<>>, f |-> <<>>]
FloatsVal(fs) == [ty |-> "[]float64", i |-> 0, s |-> <<>>, f |-> fs]
StrVal(s) == [ty |-> "string", i |-> 0, s |-> s, f |-> <<>>]
Float64Val(n) == [ty |-> "float64", i |-> 0, s |-> <<>>, f |-> <<Float(n)>>]

Field(k, v) == [k |-> k, v |-> v]
Row(k, v) == [name |-> k, value |-> v]
Tile(z, x, y, d) == [z |-> z, x |-> x, y |-> y, data |-> d]
Object(type, name) == [type |-> type, name |-> name]

\* sqlite_master rows; tables, views and indexes share one name space,
\* triggers have their own; the index and the trigger are on table tiles
SchemaObjects ==
    {Object("table", "tiles"), Object("table", "metadata"),
     Object("index", "metadata"), Object("trigger", "tiles")}

Schemas ==
    {s \in SUBSET SchemaObjects :
        /\ ~(Object("table", "metadata") \in s /\ Object("index", "metadata") \in s)
        /\ (Object("index", "metadata") \in s \/ Object("trigger", "tiles") \in s)
              => Object("table", "tiles") \in s}

FullSchema == {Object("table", "tiles"), Object("table", "metadata")}

\* "select ... from <name>" prepares only if a table or view has that name
HasRelation(schema, name) ==
    \E o \in schema : o.name = name /\ o.type \in {"table", "view"}

(***************************************************************************)
(* Sample tiles (tile_test.go has the PNG, WebP and gzip headers).         *)
(***************************************************************************)
GzipTile == <<31, 139, 8, 0, 0, 0, 0, 0, 2, 3>>
GzipTileB == <<31, 139, 8>>
ZlibTile == <<120, 156, 1>>
PngTile == <<137, 80, 78, 71, 13, 10, 26, 10, 0, 0, 0, 13, 73, 72, 68, 82, 0, 0, 1, 0>>
PngShortTile == <<137, 80, 78, 71, 13, 10, 26, 10>>
JpgTile == <<255, 216, 255, 192, 0, 11, 8, 1, 0, 1, 0, 1, 1, 17, 0, 255, 218, 0, 8>>
JpgShortTile == <<255, 216, 255, 224>>
WebpLossyTile ==
    <<82, 73, 70, 70, 226, 40, 0, 0, 87, 69, 66, 80, 86, 80, 56, 32,
      214, 40, 0, 0, 146, 179, 0, 157, 1, 42, 64, 1>>
WebpLosslessTile ==
    <<82, 73, 70, 70, 164, 63, 1, 0, 87, 69, 66, 80, 86, 80, 56, 76,
      152, 63, 1, 0, 47, 143, 1, 75>>
WebpShortTile == <<82, 73, 70, 70, 226, 40, 0, 0>>
JunkTile == <<1, 2, 3>>
EmptyTile == <<>>

SampleTiles ==
    {GzipTile, ZlibTile, PngTile, PngShortTile, JpgTile, JpgShortTile,
     WebpLossyTile, WebpLosslessTile, WebpShortTile, JunkTile, EmptyTile}

RECURSIVE SeqsUpTo(_, _)
SeqsUpTo(S, n) ==
    IF n = 0 THEN {<<>>}
    ELSE LET shorter == SeqsUpTo(S, n - 1)
         IN  shorter \cup {Append(q, e) : q \in {r \in shorter : Len(r) = n - 1}, e \in S}

TypicalMetadata ==
    <<Row("name", Text(<<"x">>)), Row("minzoom", Text(<<"0">>)),
      Row("maxzoom", Text(<<"1">>)), Row("bounds", Text(<<"1", ",", "2">>))>>

TypicalTiles == <<Tile(3, 0, 0, GzipTile), Tile(2, 0, 0, GzipTileB)>>

Container(stat, journal, content, schema, tiles, metadata, mtime) ==
    [stat |-> stat, journal |-> journal, content |-> content, schema |-> schema,
     tiles |-> tiles, metadata |-> metadata, mtime |-> mtime]

\* modification times: whole seconds and nanoseconds
ModTimes == {[sec |-> 7, nsec |-> 0], [sec |-> 7, nsec |-> 499999999],
             [sec |-> 7, nsec |-> 500000000]}

\* paths that os.Stat cannot read, files SQLite cannot open or that are no
\* database, and databases of every schema with every sample as first tile
LifecycleContainers ==
    {Container(st, j, "none", {}, <<>>, <<>>, [sec |-> 0, nsec |-> 0]) :
        st \in {"notexist", "error"}, j \in BOOLEAN}
    \cup {Container("ok", j, c, {}, <<>>, <<>>, [sec |-> 7, nsec |-> 0]) :
        c \in {"unreadable", "garbage"}, j \in BOOLEAN}
    \cup UNION {
          {Container("ok", j, "db", sch, ts,
                     IF HasRelation(sch, "metadata") THEN TypicalMetadata ELSE <<>>,
                     [sec |-> 7, nsec |-> 0]) :
              ts \in IF HasRelation(sch, "tiles")
                     THEN {<<>>} \cup {<<Tile(0, 0, 0, d)>> : d \in SampleTiles}
                     ELSE {<<>>}} :
          j \in BOOLEAN, sch \in Schemas}
    \cup {Container("ok", FALSE, "db", FullSchema, TypicalTiles, TypicalMetadata, mt) :
          mt \in ModTimes}

\* zoom levels, columns and rows that ReadTile is asked for
Coords == {0, 1}

\* every tiles table of up to MaxTiles rows over a few addresses and payloads;
\* any two of the addresses differ in one or two of the three coordinates
TileAddresses == {<<0, 0, 0>>, <<1, 0, 0>>, <<1, 1, 0>>, <<1, 0, 1>>}

TileRows == {Tile(a[1], a[2], a[3], d) : a \in TileAddresses, d \in {GzipTile, GzipTileB}}

TileContainers ==
    {Container("ok", FALSE, "db", FullSchema, ts, TypicalMetadata, [sec |-> 7, nsec |-> 0]) :
        ts \in SeqsUpTo(TileRows, MaxTiles)}

\* rows of the metadata table: typed keys with good, bad and empty values,
\* a plain key with a text, the empty text, NULL and the zero-length BLOB,
\* and json rows
MetaRows ==
    {Row("minzoom", Text(v)) : v \in {<<>>, <<"1">>, <<"x">>}}
    \cup {Row("maxzoom", Text(<<"2">>))}
    \cup {Row("bounds", Text(v)) :
            v \in {<<" ", "1", ",", " ", "-", "2", ".", "5", " ">>, <<"1", ",", "x">>,
                   <<"\t", "1", "e", "1", ",", "I", "n", "f", "\n">>}}
    \cup {Row("center", Text(<<"3">>))}
    \cup {Row("name", v) : v \in {Text(<<>>), Text(<<"x">>), Null, Blob(<<>>)}}
    \cup {Row("json", v) : v \in
            {JsonText("object", <<Field("maxzoom", Float64Val(4)),
                                  Field("attribution", StrVal(<<>>))>>),
             JsonText("object", <<Field("minzoom", StrVal(<<"x">>)),
                                  Field("maxzoom", Float64Val(4))>>),
             JsonText("null", <<>>),
             Text(<<"x">>)}}

\* a table may end with a json row holding null followed by a json row
\* holding an object
MetaTails ==
    {<<>>,
     <<Row("json", JsonText("null", <<>>)),
       Row("json", JsonText("object", <<Field("maxzoom", Float64Val(4)),
                                        Field("attribution", StrVal(<<>>))>>))>>}

\* every metadata table of up to MaxRows rows over MetaRows, with each tail
MetaContainers ==
    {Container("ok", FALSE, "db", FullSchema, TypicalTiles, md \o tail,
               [sec |-> 7, nsec |-> 0]) :
        md \in SeqsUpTo(MetaRows, MaxRows), tail \in MetaTails}

Containers == LifecycleContainers \cup TileContainers \cup MetaContainers

(***************************************************************************)
(* State.                                                                  *)
(*   file  the container at the path given to Open (never written)         *)
(*   db    the handle the caller holds: nil, a zero value, or what Open    *)
(*         returned                                                        *)
(*   pool  the sqlitex.Pool object db.pool points to                       *)
(*   buf   the caller's []byte that ReadTile writes through its pointer    *)
(*   ret   what the last call returned, or the panic that ended it         *)
(*   calls the reads in progress on the handle when goroutines share it:   *)
(*         the position of one caller's read (mine), whether it found the  *)
(*         pool empty (waited), and how many reads of other callers are    *)
(*         in pool.Get (waiting) or hold a connection (holding)            *)
(*   sqlite the connections of the process: how many are open on the file  *)
(*         (onFile) and on the in-memory database (inMemory), and what     *)
(*         the in-memory database holds (memory)                           *)
(***************************************************************************)
VARIABLES file, db, pool, buf, ret, calls, sqlite

vars == <<file, db, pool, buf, ret, calls, sqlite>>

\* sqlitex.Open(path, flags, 10)
PoolSize == 10

Path == "a.mbtiles"

NilHandle ==
    [isnil |-> TRUE, filename |-> "", pool |-> "nil", format |-> UNKNOWN,
     timestamp |-> 0, tilesize |-> U32(0)]

\* &MBtiles{}
ZeroHandle == [NilHandle EXCEPT !.isnil = FALSE]

NoPool == [closed |-> FALSE, closeCalls |-> 0, free |-> 0]

NilBytes == [isnil |-> TRUE, bytes |-> <<>>, spare |-> <<>>]
\* make([]byte, n) filled with b: the capacity is the length
Bytes(b) == [isnil |-> FALSE, bytes |-> b, spare |-> <<>>]

\* a slice of a longer array: b, then spare capacity
Slice(b, spare) == [isnil |-> FALSE, bytes |-> b, spare |-> spare]

EmptyKV == [k \in {} |-> 0]
NilMap == [isnil |-> TRUE, kv |-> EmptyKV]
\* make(map[string]interface{})
EmptyMap == [isnil |-> FALSE, kv |-> EmptyKV]

\* inMemoryPath
InMemoryPath == "file::memory:?mode=memory"

\* a database as SQLite creates it
EmptyDatabase == Container("ok", FALSE, "db", {}, <<>>, <<>>, [sec |-> 0, nsec |-> 0])

\* no connection is open
NoConnections == [onFile |-> 0, inMemory |-> 0, memory |-> EmptyDatabase]

\* no read is in progress
NoCalls ==
    [mine |-> "idle", op |-> "none", args |-> <<>>, waited |-> FALSE,
     waiting |-> 0, holding |-> 0]

ErrPathNotExist == "path does not exist"
ErrStat == "stat: error other than not-exist"
ErrJournal == "refusing to open mbtiles file with associated -journal file (incomplete tileset)"
ErrOpenConn == "sqlite: unable to open database file"
ErrNotADb == "sqlite: file is not a database"
ErrNoSuchTable == "sqlite: no such table"
ErrMissingTables == "missing one or more required tables: tiles, metadata"
ErrEmptyTiles == "'tiles' table must be non-empty"
ErrClosed == "cannot read tile from closed mbtiles database"
ErrNoConn == "connection could not be opened"
ErrMetadataItem == "cannot read metadata item"
ErrJson == "unable to parse JSON metadata item"
FaultNilMap == "assignment to entry in nil map"
FaultNilDeref == "invalid memory address or nil pointer dereference"
FaultCloseClosed == "close of closed channel"

\* recv tells whether the receiver was the nil pointer or the handle db
\* got is what pool.Get gave the call: "none" if it was not called, "nil", "con"
Returned(op, recv, args, err, md) ==
    [op |-> op, recv |-> recv, args |-> args, err |-> err, fault |-> NoFault, md |-> md,
     got |-> "none"]
Panicked(op, recv, args, fault) ==
    [op |-> op, recv |-> recv, args |-> args, err |-> NoErr, fault |-> fault, md |-> NilMap,
     got |-> "none"]

(***************************************************************************)
(* Open                                                                    *)
(***************************************************************************)
\* fileModTime with Truncate in place of Round
fileModTimeTruncated(f) ==
    IF f.stat = "notexist" THEN Fail(0, ErrPathNotExist)
    ELSE IF f.stat # "ok" THEN Fail(0, ErrStat)
    ELSE Ok(f.mtime.sec)

\* fileModTime: stat.ModTime().Round(time.Second), halves round up
fileModTime(f) ==
    IF f.stat = "notexist" THEN Fail(0, ErrPathNotExist)
    ELSE IF f.stat # "ok" THEN Fail(0, ErrStat)
    ELSE Ok(IF f.mtime.nsec >= 500000000 THEN f.mtime.sec + 1 ELSE f.mtime.sec)

\* validateRequiredTables: counts the sqlite_master rows of either name
validateRequiredTables(f) ==
    IF f.content # "db" THEN ErrNotADb
    ELSE IF Cardinality({o \in f.schema : o.name \in {"tiles", "metadata"}}) < 2
         THEN ErrMissingTables
    ELSE NoErr

\* getTileFormatAndSize without the "if format == GZIP" promotion
getTileFormatAndSizeAsDetected(f) ==
    LET Res(fmt, size, err, fault) ==
            [format |-> fmt, tilesize |-> size, err |-> err, fault |-> fault]
    IN  IF ~HasRelation(f.schema, "tiles") THEN {Res(UNKNOWN, U32(0), ErrNoSuchTable, NoFault)}
        ELSE IF f.tiles = <<>> THEN {Res(UNKNOWN, U32(0), ErrEmptyTiles, NoFault)}
        ELSE LET tileData == f.tiles[1].data
             IN  {IF d.err # NoErr THEN Res(UNKNOWN, U32(0), d.err, NoFault)
                  ELSE LET size == detectTileSize(d.val, Bytes(tileData))
                       IN  Res(d.val, size.val, size.err, size.fault) :
                  d \in detectTileFormat(tileData)}

\* getTileFormatAndSize: the possible results [format, tilesize, err, fault]
getTileFormatAndSize(f) ==
    LET Res(fmt, size, err, fault) ==
            [format |-> fmt, tilesize |-> size, err |-> err, fault |-> fault]
    IN  IF ~HasRelation(f.schema, "tiles") THEN {Res(UNKNOWN, U32(0), ErrNoSuchTable, NoFault)}
        ELSE IF f.tiles = <<>> THEN {Res(UNKNOWN, U32(0), ErrEmptyTiles, NoFault)}
        ELSE LET tileData == f.tiles[1].data
             IN  {IF d.err # NoErr THEN Res(UNKNOWN, U32(0), d.err, NoFault)
                  ELSE LET format == IF d.val = GZIP THEN PBF ELSE d.val
                           size == detectTileSize(format, Bytes(tileData))
                       IN  Res(format, size.val, size.err, size.fault) :
                  d \in detectTileFormat(tileData)}

\* validateAndGetFormatAndSize
validateAndGetFormatAndSize(f) ==
    LET Res(err) == {[format |-> 0, tilesize |-> U32(0), err |-> err, fault |-> NoFault]}
    IN  IF f.journal THEN Res(ErrJournal)
        ELSE IF f.content = "unreadable" THEN Res(ErrOpenConn)
        ELSE IF validateRequiredTables(f) # NoErr THEN Res(validateRequiredTables(f))
        ELSE getTileFormatAndSize(f)

\* the connections that a call of Open or OpenInMemory leaves open on the
\* file, had the pool been opened before the checks and left to the caller
\* when a check fails
leftOpenPoolFirst(f, v) ==
    IF f.journal \/ f.content = "unreadable" THEN 0 ELSE PoolSize

\* the connections that a call of Open leaves open on the file, v being
\* what validateAndGetFormatAndSize gave
leftOpen(f, v) ==
    LET \* con, err := sqlite.OpenConn(path, ...): nil for a file it cannot open
        con == IF f.journal \/ f.content = "unreadable" THEN 0 ELSE 1
        \* if con != nil { defer con.Close() }
        deferred == con
        \* sqlitex.Open(path, ..., 10), reached when v is no error and no panic
        pl == IF v.err = NoErr /\ v.fault = NoFault THEN PoolSize ELSE 0
    IN  con - deferred + pl

\* Open(path): the handle the caller gets depends on the sampled tile only
Open ==
    /\ ret.fault = NoFault
    /\ db.isnil \/ db.pool = "nil"
    /\ LET modTime == fileModTime(file)
       IN  IF modTime.err # NoErr
           THEN /\ db' = NilHandle
                /\ ret' = Returned("Open", "", <<>>, modTime.err, NilMap)
                /\ UNCHANGED <<pool, sqlite>>
           ELSE \E v \in validateAndGetFormatAndSize(file) :
                  /\ sqlite' = [sqlite EXCEPT !.onFile = @ + leftOpen(file, v)]
                  /\ IF v.fault # NoFault
                     THEN /\ ret' = Panicked("Open", "", <<>>, v.fault)
                          /\ UNCHANGED <<db, pool>>
                     ELSE IF v.err # NoErr
                     THEN /\ db' = NilHandle
                          /\ ret' = Returned("Open", "", <<>>, v.err, NilMap)
                          /\ UNCHANGED pool
                     ELSE /\ db' = [isnil |-> FALSE, filename |-> Path, pool |-> "pool",
                                    format |-> v.format, timestamp |-> modTime.val,
                                    tilesize |-> v.tilesize]
                          /\ pool' = [closed |-> FALSE, closeCalls |-> 0, free |-> PoolSize]
                          /\ ret' = Returned("Open", "", <<>>, NoErr, NilMap)
    /\ UNCHANGED <<file, buf, calls>>

\* the tilesets that the same process may load into memory besides the file
OtherContainers ==
    {Container("ok", FALSE, "db", FullSchema, <<Tile(0, 0, 0, PngTile)>>,
               <<Row("name", Text(<<"o">>))>>, [sec |-> 9, nsec |-> 0]),
     Container("ok", FALSE, "db", FullSchema, TypicalTiles, TypicalMetadata,
               [sec |-> 9, nsec |-> 0])}

\* OpenInMemory(ctx, path): after the checks of Open, srcCon.BackupInit("", "",
\* dstCon) and bkp.Step(-1) copy the whole file into the database that
\* inMemoryPath names, and the pool is opened on inMemoryPath
OpenInMemory ==
    /\ ret.fault = NoFault
    /\ db.isnil \/ db.pool = "nil"
    /\ LET modTime == fileModTime(file)
       IN  IF modTime.err # NoErr
           THEN /\ db' = NilHandle
                /\ ret' = Returned("OpenInMemory", "", <<>>, modTime.err, NilMap)
                /\ UNCHANGED <<pool, sqlite>>
           ELSE \E v \in validateAndGetFormatAndSize(file) :
                  IF v.fault # NoFault
                  THEN /\ ret' = Panicked("OpenInMemory", "", <<>>, v.fault)
                       /\ UNCHANGED <<db, pool, sqlite>>
                  ELSE IF v.err # NoErr
                  THEN /\ db' = NilHandle
                       /\ ret' = Returned("OpenInMemory", "", <<>>, v.err, NilMap)
                       /\ UNCHANGED <<pool, sqlite>>
                  ELSE /\ db' = [isnil |-> FALSE, filename |-> InMemoryPath,
                                 pool |-> "pool", format |-> v.format,
                                 timestamp |-> modTime.val, tilesize |-> v.tilesize]
                       /\ pool' = [closed |-> FALSE, closeCalls |-> 0, free |-> PoolSize]
                       /\ sqlite' = [sqlite EXCEPT !.memory = file,
                                                   !.inMemory = @ + PoolSize]
                       /\ ret' = Returned("OpenInMemory", "", <<>>, NoErr, NilMap)
    /\ UNCHANGED <<file, buf, calls>>

\* the process calls OpenInMemory for another tileset and keeps that handle
\* open: inMemoryPath is the same string in every call
OpenInMemoryOther ==
    /\ ret.fault = NoFault
    /\ sqlite.inMemory \in {0, PoolSize}
    /\ \E other \in OtherContainers :
         /\ sqlite.memory # other
         /\ sqlite' = [sqlite EXCEPT !.memory = other, !.inMemory = @ + PoolSize]
    /\ UNCHANGED <<file, db, pool, buf, ret, calls>>

(***************************************************************************)
(* The connection pool (crawshaw.io/sqlite/sqlitex).  Get hands out a free *)
(* connection and returns nil once the pool is closed; Put gives it back;  *)
(* Close closes the pool's "closed" channel and every connection, so a     *)
(* second Close of the same pool panics.                                   *)
(***************************************************************************)
\* getConnection: "con" or, when pool.Get returns nil, the error
getConnection(pl) == IF pl.closed THEN Fail("nil", ErrNoConn) ELSE Ok("con")

\* a closeConnection that puts the connection into the pool twice
closeConnectionTwice(pl, con) ==
    IF con # "nil" THEN [pl EXCEPT !.free = @ + 2] ELSE pl

\* a closeConnection that keeps the connection
closeConnectionNever(pl, con) == pl

\* closeConnection
closeConnection(pl, con) ==
    IF con # "nil" THEN [pl EXCEPT !.free = @ + 1] ELSE pl

\* the pool while the connection handed out by getConnection is in use
Acquired(pl) == IF pl.closed THEN pl ELSE [pl EXCEPT !.free = @ - 1]

\* the pool after a read: the deferred closeConnection returns the connection
\* that getConnection took, on every path
poolAfterRead(h, pl) ==
    IF h.isnil \/ h.pool = "nil" THEN pl
    ELSE closeConnection(Acquired(pl), getConnection(pl).val)

Receivers == {"db", "nil"}
Receiver(r) == IF r = "nil" THEN NilHandle ELSE db

\* the database that the connections of the handle's pool are open on
Database(h) == IF h.filename = InMemoryPath THEN sqlite.memory ELSE file

(***************************************************************************)
(* Close                                                                   *)
(***************************************************************************)
\* pool.Close closes the connections of the pool, once; the in-memory
\* database goes with its last connection
closePool(h, pl) ==
    IF pl.closed THEN sqlite
    ELSE IF h.filename = InMemoryPath
         THEN [sqlite EXCEPT !.inMemory = @ - PoolSize,
                             !.memory = IF sqlite.inMemory = PoolSize
                                        THEN EmptyDatabase ELSE @]
         ELSE [sqlite EXCEPT !.onFile = @ - PoolSize]

\* Close without the "db.pool != nil" test: a nil pool is dereferenced
CloseWithoutNilTest ==
    /\ ret.fault = NoFault
    /\ \E r \in Receivers :
         LET h == Receiver(r)
         IN  IF h.isnil \/ h.pool = "nil"
             THEN /\ ret' = Panicked("Close", r, <<>>, FaultNilDeref)
                  /\ UNCHANGED <<pool, sqlite>>
             ELSE /\ pool' = [pool EXCEPT !.closed = TRUE, !.closeCalls = @ + 1]
                  /\ ret' = IF pool.closed
                            THEN Panicked("Close", r, <<>>, FaultCloseClosed)
                            ELSE Returned("Close", r, <<>>, NoErr, NilMap)
                  /\ sqlite' = closePool(h, pool)
    /\ UNCHANGED <<file, db, buf, calls>>

Close ==
    /\ ret.fault = NoFault
    /\ \E r \in Receivers :
         LET h == Receiver(r)
         IN  IF h.isnil
             THEN /\ ret' = Panicked("Close", r, <<>>, FaultNilDeref)
                  /\ UNCHANGED <<pool, sqlite>>
             ELSE IF h.pool = "nil"
             THEN /\ ret' = Returned("Close", r, <<>>, NoErr, NilMap)
                  /\ UNCHANGED <<pool, sqlite>>
             ELSE /\ pool' = [pool EXCEPT !.closed = TRUE, !.closeCalls = @ + 1]
                  /\ ret' = IF pool.closed
                            THEN Panicked("Close", r, <<>>, FaultCloseClosed)
                            ELSE Returned("Close", r, <<>>, NoErr, NilMap)
                  /\ sqlite' = closePool(h, pool)
    /\ UNCHANGED <<file, db, buf, calls>>

(***************************************************************************)
(* The getters return the fields of the handle.                            *)
(***************************************************************************)
GetFilename(h) == IF h.isnil THEN Panic(FaultNilDeref) ELSE Ok(h.filename)
GetTileFormat(h) == IF h.isnil THEN Panic(FaultNilDeref) ELSE Ok(h.format)
GetTileSize(h) == IF h.isnil THEN Panic(FaultNilDeref) ELSE Ok(h.tilesize)
GetTimestamp(h) == IF h.isnil THEN Panic(FaultNilDeref) ELSE Ok(h.timestamp)

(***************************************************************************)
(* ReadTile                                                                *)
(***************************************************************************)
\* a lookup that leaves tile_row out of the where clause
MatchingWithoutRow(f, z, x, y) ==
    {i \in 1..Len(f.tiles) : f.tiles[i].z = z /\ f.tiles[i].x = x}

\* the rows "where zoom_level = $z and tile_column = $x and tile_row = $y"
Matching(f, z, x, y) ==
    {i \in 1..Len(f.tiles) : f.tiles[i].z = z /\ f.tiles[i].x = x /\ f.tiles[i].y = y}

\* ReadTile: the error returned and *data after the call
readTile(h, pl, f, z, x, y, data) ==
    IF h.isnil \/ h.pool = "nil" THEN [err |-> ErrClosed, data |-> data, got |-> "none"]
    ELSE IF getConnection(pl).err # NoErr
         THEN [err |-> getConnection(pl).err, data |-> data, got |-> "nil"]
    ELSE IF ~HasRelation(f.schema, "tiles")
         THEN [err |-> ErrNoSuchTable, data |-> data, got |-> "con"]
    ELSE LET hits == Matching(f, z, x, y)
         IN  IF hits = {} THEN [err |-> NoErr, data |-> NilBytes, got |-> "con"]
             ELSE LET first == CHOOSE i \in hits : \A j \in hits : i <= j
                  IN  [err |-> NoErr, data |-> Bytes(f.tiles[first].data), got |-> "con"]

ReadTile ==
    /\ ret.fault = NoFault
    /\ \E r \in Receivers, z \in Coords, x \in Coords, y \in Coords :
         LET res == readTile(Receiver(r), pool, Database(Receiver(r)), z, x, y, buf)
         IN  /\ buf' = res.data
             /\ ret' = [Returned("ReadTile", r, <<z, x, y>>, res.err, NilMap)
                          EXCEPT !.got = res.got]
             /\ pool' = poolAfterRead(Receiver(r), pool)
    /\ UNCHANGED <<file, db, calls, sqlite>>

(***************************************************************************)
(* ReadMetadata                                                            *)
(***************************************************************************)
\* query.GetText: NULL reads as the empty string, a BLOB as its bytes
GetText(value) == value.s

\* a query with no where clause
AnyValue(value) == TRUE

\* "where value is not ''": NULL, every BLOB (a BLOB is never equal to a
\* text) and every non-empty text pass
ValueIsNotEmpty(value) == ~(value.t = "text" /\ value.s = <<>>)

Selected(rows) == SelectSeq(rows, LAMBDA r : ValueIsNotEmpty(r.value))

Scan(md, err, fault) == [md |-> md, err |-> err, fault |-> fault]
Got(scan, got) == [md |-> scan.md, err |-> scan.err, fault |-> scan.fault, got |-> got]

\* metadata[key] = v
SetKey(md, key, v) == [isnil |-> FALSE, kv |-> (key :> v) @@ md.kv]

RECURSIVE UnmarshalFields(_, _, _)
UnmarshalFields(fields, i, kv) ==
    IF i > Len(fields) THEN kv
    ELSE UnmarshalFields(fields, i + 1, (fields[i].k :> fields[i].v) @@ kv)

\* json.Unmarshal([]byte(value), &metadata): an object sets its fields in the
\* map (made if nil), the literal null sets the map to nil, anything else
\* is an error
jsonUnmarshal(md, value) ==
    CASE value.doc.kind = "object" ->
            Scan([isnil |-> FALSE, kv |-> UnmarshalFields(value.doc.fields, 1, md.kv)],
                 NoErr, NoFault)
      [] value.doc.kind = "null" -> Scan(NilMap, NoErr, NoFault)
      [] OTHER -> Scan(md, ErrJson, NoFault)

\* "metadata[key], err = parseFloats(value)" and the test of err
setFloats(md, key, parsed) ==
    IF ~parsed.ok THEN Scan(md, ErrMetadataItem, NoFault)
    ELSE Scan(SetKey(md, key, FloatsVal(parsed.v)), NoErr, NoFault)

\* the switch on key, for one row
scanRow(md, key, value) ==
    CASE key \in {"maxzoom", "minzoom"} ->
            IF md.isnil THEN Scan(md, NoErr, FaultNilMap)
            ELSE IF ~Atoi(GetText(value)).ok THEN Scan(md, ErrMetadataItem, NoFault)
            ELSE Scan(SetKey(md, key, IntVal(Atoi(GetText(value)).v)), NoErr, NoFault)
      [] key \in {"bounds", "center"} ->
            IF md.isnil THEN Scan(md, NoErr, FaultNilMap)
            ELSE setFloats(md, key, parseFloats(GetText(value)))
      [] key = "json" -> jsonUnmarshal(md, value)
      [] OTHER ->
            IF md.isnil THEN Scan(md, NoErr, FaultNilMap)
            ELSE Scan(SetKey(md, key, StrVal(GetText(value))), NoErr, NoFault)

\* the loop over the selected rows
RECURSIVE scanRows(_, _, _)
RECURSIVE scanNext(_, _, _)
scanRows(rows, i, md) ==
    IF i > Len(rows) THEN Scan(md, NoErr, NoFault)
    ELSE scanNext(rows, i, scanRow(md, rows[i].name, rows[i].value))

\* after row i gave r: an error or a panic ends the loop
scanNext(rows, i, r) ==
    IF r.err # NoErr \/ r.fault # NoFault THEN r
    ELSE scanRows(rows, i + 1, r.md)

\* "select min(zoom_level), max(zoom_level) from tiles"; ColumnInt of NULL is 0
Zooms(f) == {f.tiles[i].z : i \in 1..Len(f.tiles)}
MinZoom(f) == IF Zooms(f) = {} THEN 0 ELSE CHOOSE z \in Zooms(f) : \A w \in Zooms(f) : z <= w
MaxZoom(f) == IF Zooms(f) = {} THEN 0 ELSE CHOOSE z \in Zooms(f) : \A w \in Zooms(f) : z >= w

\* "Supplement missing values by inferring from available data"
supplementZooms(md, f) ==
    IF "minzoom" \in DOMAIN md.kv /\ "maxzoom" \in DOMAIN md.kv THEN Scan(md, NoErr, NoFault)
    ELSE IF ~HasRelation(f.schema, "tiles") THEN Scan(md, ErrNoSuchTable, NoFault)
    ELSE IF md.isnil THEN Scan(md, NoErr, FaultNilMap)
    ELSE Scan(SetKey(SetKey(md, "minzoom", IntVal(MinZoom(f))), "maxzoom", IntVal(MaxZoom(f))),
              NoErr, NoFault)

\* ReadMetadata: the map and the error returned, or the panic
readMetadata(h, pl, f) ==
    IF h.isnil \/ h.pool = "nil" THEN Got(Scan(NilMap, ErrClosed, NoFault), "none")
    ELSE IF getConnection(pl).err # NoErr
         THEN Got(Scan(NilMap, getConnection(pl).err, NoFault), "nil")
    ELSE IF ~HasRelation(f.schema, "metadata")
         THEN Got(Scan(NilMap, ErrNoSuchTable, NoFault), "con")
    ELSE LET scanned == scanRows(Selected(f.metadata), 1, EmptyMap)
         IN  IF scanned.fault # NoFault THEN Got(scanned, "con")
             ELSE IF scanned.err # NoErr THEN Got(Scan(NilMap, scanned.err, NoFault), "con")
             ELSE LET full == supplementZooms(scanned.md, f)
                  IN  IF full.err # NoErr THEN Got(Scan(NilMap, full.err, NoFault), "con")
                      ELSE Got(full, "con")

ReadMetadata ==
    /\ ret.fault = NoFault
    /\ \E r \in Receivers :
         LET res == readMetadata(Receiver(r), pool, Database(Receiver(r)))
         IN  /\ ret' = [(IF res.fault # NoFault
                         THEN Panicked("ReadMetadata", r, <<>>, res.fault)
                         ELSE Returned("ReadMetadata", r, <<>>, res.err, res.md))
                          EXCEPT !.got = res.got]
             /\ pool' = poolAfterRead(Receiver(r), pool)
    /\ UNCHANGED <<file, db, buf, calls, sqlite>>

(***************************************************************************)
(* The specification                                                       *)
(***************************************************************************)
Init ==
    /\ file \in Containers
    /\ db = ZeroHandle
    /\ pool = NoPool
    /\ buf = NilBytes
    /\ ret = Returned("none", "", <<>>, NoErr, NilMap)
    /\ calls = NoCalls
    /\ sqlite = NoConnections

Next == Open \/ Close \/ ReadTile \/ ReadMetadata

Spec == Init /\ [][Next]_vars

\* the handle obtained by OpenInMemory, in a process that may hold another
\* in-memory handle
MemNext == OpenInMemory \/ OpenInMemoryOther \/ Close \/ ReadTile \/ ReadMetadata

SpecMem == Init /\ [][MemNext]_vars

(***************************************************************************)
(* Goroutines sharing one open handle.  A read is pool.Get (a receive on   *)
(* the pool's channel of free connections, which blocks while the channel  *)
(* is empty), the queries, and the deferred closeConnection.  The read of  *)
(* one caller is followed step by step (calls.mine); the reads of the      *)
(* other callers are counted by position.  The handle stays open.          *)
(***************************************************************************)
\* the calls in progress, at most
MaxCalls == 12

\* a container for each way out of a read: a tile found or missing and the
\* metadata read; no metadata table to prepare the query on; a row that
\* does not parse; a json row that leaves the map nil
PoolContainers ==
    {Container("ok", FALSE, "db", sch, <<Tile(0, 0, 0, GzipTile)>>, md, [sec |-> 7, nsec |-> 0]) :
        sch \in {FullSchema}, md \in {TypicalMetadata,
                                      <<Row("minzoom", Text(<<"x">>))>>,
                                      <<Row("json", JsonText("null", <<>>))>>}}
    \cup {Container("ok", FALSE, "db", {Object("table", "tiles"), Object("index", "metadata")},
                    <<Tile(0, 0, 0, GzipTile)>>, <<>>, [sec |-> 7, nsec |-> 0])}

\* the reads a caller makes
ReadCalls ==
    {[op |-> "ReadTile", args |-> <<0, 0, 0>>], [op |-> "ReadTile", args |-> <<1, 0, 0>>],
     [op |-> "ReadMetadata", args |-> <<>>]}

\* what the queries of a read give once it has its connection
tileResult(r) == [err |-> r.err, fault |-> NoFault, md |-> NilMap, data |-> r.data]
metadataResult(r, data) == [err |-> r.err, fault |-> r.fault, md |-> r.md, data |-> data]
readResult(c) ==
    IF c.op = "ReadTile"
    THEN tileResult(readTile(db, pool, Database(db), c.args[1], c.args[2], c.args[3], buf))
    ELSE metadataResult(readMetadata(db, pool, Database(db)), buf)

\* the end of the caller's read with result r
endRead(c, r) ==
    /\ ret' = [(IF r.fault # NoFault
                THEN Panicked(c.op, "db", c.args, r.fault)
                ELSE Returned(c.op, "db", c.args, r.err, r.md))
                 EXCEPT !.got = "con"]
    /\ buf' = r.data

\* the end of another goroutine's read with result r
otherEndRead(c, r) ==
    ret' = IF r.fault # NoFault
           THEN [Panicked(c.op, "db", c.args, r.fault) EXCEPT !.got = "con"]
           ELSE ret

\* db.ReadTile(...) or db.ReadMetadata() is called: the call reaches pool.Get
BeginRead ==
    /\ ret.fault = NoFault
    /\ ~db.isnil /\ db.pool = "pool"
    /\ calls.mine = "idle"
    /\ \E c \in ReadCalls :
         calls' = [calls EXCEPT !.mine = "get", !.op = c.op, !.args = c.args,
                                !.waited = (pool.free = 0)]
    /\ UNCHANGED <<file, db, pool, buf, ret, sqlite>>

\* con := <-p.free
GetConnection ==
    /\ ret.fault = NoFault
    /\ calls.mine = "get"
    /\ pool.free > 0
    /\ getConnection(pool).err = NoErr
    /\ pool' = Acquired(pool)
    /\ calls' = [calls EXCEPT !.mine = "hold"]
    /\ UNCHANGED <<file, db, buf, ret, sqlite>>

\* the queries run and the call ends: the deferred closeConnection(con) puts
\* the connection back whether the call returns a result, an error or panics
EndRead ==
    /\ ret.fault = NoFault
    /\ calls.mine = "hold"
    /\ endRead(calls, readResult(calls))
    /\ pool' = closeConnection(pool, "con")
    /\ calls' = [calls EXCEPT !.mine = "idle"]
    /\ UNCHANGED <<file, db, sqlite>>

\* another goroutine calls a read
OtherBeginRead ==
    /\ ret.fault = NoFault
    /\ ~db.isnil /\ db.pool = "pool"
    /\ calls.waiting + calls.holding + 1 < MaxCalls
    /\ calls' = [calls EXCEPT !.waiting = @ + 1]
    /\ UNCHANGED <<file, db, pool, buf, ret, sqlite>>

OtherGetConnection ==
    /\ ret.fault = NoFault
    /\ calls.waiting > 0
    /\ pool.free > 0
    /\ getConnection(pool).err = NoErr
    /\ pool' = Acquired(pool)
    /\ calls' = [calls EXCEPT !.waiting = @ - 1, !.holding = @ + 1]
    /\ UNCHANGED <<file, db, buf, ret, sqlite>>

\* a panic in any goroutine ends the program, after its deferred calls
OtherEndRead ==
    /\ ret.fault = NoFault
    /\ calls.holding > 0
    /\ \E c \in ReadCalls : otherEndRead(c, readResult(c))
    /\ pool' = closeConnection(pool, "con")
    /\ calls' = [calls EXCEPT !.holding = @ - 1]
    /\ UNCHANGED <<file, db, buf, sqlite>>

PoolInit ==
    /\ file \in PoolContainers
    /\ db = ZeroHandle
    /\ pool = NoPool
    /\ buf = NilBytes
    /\ ret = Returned("none", "", <<>>, NoErr, NilMap)
    /\ calls = NoCalls
    /\ sqlite = NoConnections

PoolNext ==
    \/ Open
    \/ BeginRead \/ GetConnection \/ EndRead
    \/ OtherBeginRead \/ OtherGetConnection \/ OtherEndRead

SpecPool == PoolInit /\ [][PoolNext]_vars

(***************************************************************************)
(* The sniffer on its own: detectTileFormat, detectTileSize and MimeType   *)
(* are functions of their arguments.  In this specification buf is the     *)
(* buffer a caller holds and ret the result of the last call               *)
(* [op, format, fmt, size, mime, err, fault]: format is the TileFormat     *)
(* argument, fmt, size and mime the value returned.  The container and the *)
(* handle play no part.                                                    *)
(***************************************************************************)
\* longest buffer made of arbitrary signature bytes
MaxJunk == 2

\* an extended (VP8X) WebP header of 30 bytes, canvas width 1 + 0x012b
WebpExtendedTile ==
    <<82, 73, 70, 70, 22, 0, 0, 0, 87, 69, 66, 80, 86, 80, 56, 88,
      10, 0, 0, 0, 16, 0, 0, 0, 43, 1, 0, 199, 0, 0>>

\* a RIFF file of another sub-type: the header of a WAVE file
RiffWaveTile ==
    <<82, 73, 70, 70, 36, 8, 0, 0, 87, 65, 86, 69, 102, 109, 116, 32, 16, 0, 0, 0>>

\* every prefix of b, from the empty buffer to b itself
Truncations(b) == {SubSeq(b, 1, n) : n \in 0..Len(b)}

\* b with the bytes from offset i on overwritten by vals
WithBytes(b, i, vals) ==
    [k \in 1..Len(b) |-> IF k - 1 >= i /\ k - 1 < i + Len(vals) THEN vals[k - i] ELSE b[k]]

\* b with one of its first n bytes changed
Altered(b, n) == {WithBytes(b, i, <<(b[i + 1] + 1) % 256>>) : i \in 0..(n - 1)}

EdgeBytes == {0, 1, 2, 63, 64, 255}

\* the first and second bytes of the signatures
SignatureBytes == {31, 139, 120, 156, 137, 80, 255, 216, 82, 73}

SniffBuffers ==
    UNION {Truncations(t) : t \in SampleTiles \cup {WebpExtendedTile}}
    \cup UNION {Altered(t, 8) : t \in {GzipTile, PngTile, JpgTile, WebpLossyTile}}
    \cup SeqsUpTo(SignatureBytes, MaxJunk)
    \cup {WithBytes(PngTile, 16, <<a, b, c, d>>) :
            a \in EdgeBytes, b \in EdgeBytes, c \in EdgeBytes, d \in EdgeBytes}
    \cup UNION {Truncations(WithBytes(WebpLossyTile, 26, <<a, b>>)) :
                  a \in EdgeBytes, b \in EdgeBytes}
    \cup UNION {Truncations(WithBytes(WebpLosslessTile, 21, <<a, b>>)) :
                  a \in EdgeBytes, b \in EdgeBytes}
    \cup UNION {Truncations(WithBytes(WebpExtendedTile, 24, <<a, b>>)) :
                  a \in EdgeBytes, b \in EdgeBytes}
    \cup Truncations(RiffWaveTile)
    \cup {WithBytes(WebpLossyTile, 15, <<c>>) : c \in {0, 33, 75, 89}}

Sniffed(op, format, fmt, size, mime, err, fault) ==
    [op |-> op, format |-> format, fmt |-> fmt, size |-> size, mime |-> mime,
     err |-> err, fault |-> fault]

NotSniffed == Sniffed("none", UNKNOWN, UNKNOWN, U32(0), "", NoErr, NoFault)

\* what the backing array of the caller's slice holds after the slice:
\* nothing (cap = len), one byte, or the rest of a longer buffer, here one
\* that has the tag "VP8X" where bytes 12..15 of an 8-byte slice would be
Spares == {<<>>, <<48>>, <<48, 48, 48, 48, 86, 80, 56, 88, 48, 48, 48>>}

SniffInit ==
    /\ file = Container("notexist", FALSE, "none", {}, <<>>, <<>>, [sec |-> 0, nsec |-> 0])
    /\ db = ZeroHandle
    /\ pool = NoPool
    /\ buf \in {Slice(b, spare) : b \in SniffBuffers, spare \in Spares}
    /\ ret = NotSniffed
    /\ calls = NoCalls
    /\ sqlite = NoConnections

\* format, err := detectTileFormat(buf)
DetectTileFormat ==
    /\ ret.fault = NoFault
    /\ \E d \in detectTileFormat(buf.bytes) :
         ret' = Sniffed("detectTileFormat", UNKNOWN, d.val, U32(0), "", d.err, d.fault)
    /\ UNCHANGED <<file, db, pool, buf, calls, sqlite>>

\* tilesize, err := detectTileSize(format, buf)
DetectTileSize ==
    /\ ret.fault = NoFault
    /\ \E format \in TileFormats :
         LET size == detectTileSize(format, buf)
         IN  ret' = Sniffed("detectTileSize", format, UNKNOWN, size.val, "", size.err,
                            size.fault)
    /\ UNCHANGED <<file, db, pool, buf, calls, sqlite>>

\* format.MimeType()
CallMimeType ==
    /\ ret.fault = NoFault
    /\ \E format \in TileFormats :
         ret' = Sniffed("MimeType", format, UNKNOWN, U32(0), MimeType(format), NoErr, NoFault)
    /\ UNCHANGED <<file, db, pool, buf, calls, sqlite>>

SniffNext == DetectTileFormat \/ DetectTileSize \/ CallMimeType

SpecSniff == SniffInit /\ [][SniffNext]_vars

\* the buffer as the first tile of a container: Open samples it, and
\* detectTileSize is called on it with each format
SampleInit ==
    /\ buf \in {Bytes(b) : b \in SniffBuffers}
    /\ file = Container("ok", FALSE, "db", FullSchema, <<Tile(0, 0, 0, buf.bytes)>>,
                        TypicalMetadata, [sec |-> 7, nsec |-> 0])
    /\ db = ZeroHandle
    /\ pool = NoPool
    /\ ret = NotSniffed
    /\ calls = NoCalls
    /\ sqlite = NoConnections

SampleNext == Open \/ DetectTileSize

SpecSample == SampleInit /\ [][SampleNext]_vars

(***************************************************************************)
(* FindMBtiles.  In this specification file is what is at the path given   *)
(* to FindMBtiles: nothing, a file, or a directory tree.  A name is a      *)
(* sequence of characters, a path the sequence of names from the root      *)
(* down, a node [name, kind, readable, children] with the children of a    *)
(* directory in the lexical order in which filepath.Walk visits them.      *)
(* ret is [op, filenames, err].                                            *)
(***************************************************************************)
\* most files in one directory
MaxFiles == 3

MbtilesExt == <<".", "m", "b", "t", "i", "l", "e", "s">>
JournalSuffix == <<"-", "j", "o", "u", "r", "n", "a", "l">>

\* filepath.Ext: the suffix of the last element from its last dot on
RECURSIVE ExtFrom(_, _)
ExtFrom(name, i) ==
    IF i < 1 THEN <<>>
    ELSE IF name[i] = "." THEN SubSeq(name, i, Len(name))
    ELSE ExtFrom(name, i - 1)

Ext(path) == ExtFrom(path[Len(path)], Len(path[Len(path)]))

\* os.Stat(p + "-journal") succeeds: the directory of p has that name
JournalExists(path, siblings) == (path[Len(path)] \o JournalSuffix) \in siblings

Node(name, kind, readable, children) ==
    [name |-> name, kind |-> kind, readable |-> readable, children |-> children]

FileNode(name) == Node(name, "file", TRUE, <<>>)

NamesOf(children) == {children[i].name : i \in 1..Len(children)}

\* file names of a directory, in lexical order
FileNames ==
    <<MbtilesExt,
      <<"a", ".", "M", "B", "T", "I", "L", "E", "S">>,
      <<"a">> \o MbtilesExt,
      <<"a">> \o MbtilesExt \o JournalSuffix,
      <<"b">> \o MbtilesExt,
      <<"c", ".", "t", "x", "t">>>>

\* the files of a directory: at most MaxFiles of FileNames, in order
FileLists ==
    {SelectSeq([i \in 1..Len(FileNames) |-> FileNode(FileNames[i])],
               LAMBDA n : n.name \in S) :
        S \in {T \in SUBSET {FileNames[i] : i \in 1..Len(FileNames)} :
                  Cardinality(T) <= MaxFiles}}

\* a subdirectory d: absent, unreadable, or holding a.mbtiles and its journal
SubDirs ==
    {<<>>, <<Node(<<"d">>, "dir", FALSE, <<>>)>>}
    \cup {<<Node(<<"d">>, "dir", TRUE,
                 SelectSeq(<<FileNode(FileNames[3]), FileNode(FileNames[4])>>,
                           LAMBDA n : n.name \in S))>> :
            S \in SUBSET {FileNames[3], FileNames[4]}}

\* a directory named e.mbtiles, absent or holding b.mbtiles, and after it
\* a file e.mbtiles-journal or not
ExtDirs ==
    {d \o j :
        d \in {<<>>,
               <<Node(<<"e">> \o MbtilesExt, "dir", TRUE, <<>>)>>,
               <<Node(<<"e">> \o MbtilesExt, "dir", TRUE, <<FileNode(FileNames[5])>>)>>},
        j \in {<<>>, <<FileNode(<<"e">> \o MbtilesExt \o JournalSuffix)>>}}

RootNames == {<<"r">>, <<"r">> \o MbtilesExt}

Tree(stat, siblings, root) == [stat |-> stat, siblings |-> siblings, root |-> root]

Trees ==
    {Tree("notexist", {}, FileNode(<<"r">>))}
    \cup {Tree("ok", {n} \cup j, FileNode(n)) :
            n \in RootNames, j \in {{}, {<<"r">> \o MbtilesExt \o JournalSuffix}}}
    \cup {Tree("ok", {n} \cup j, Node(n, "dir", TRUE, fs \o d \o e)) :
            n \in RootNames, j \in {{}, {<<"r">> \o MbtilesExt \o JournalSuffix}},
            fs \in FileLists, d \in SubDirs, e \in ExtDirs}

ErrLstat == "lstat: no such file or directory"
ErrReadDir == "open: permission denied"

Walked(filenames, err) == [filenames |-> filenames, err |-> err]

\* a FindMBtiles whose callback has no -journal test
visitAnyJournal(path, err, siblings, acc) ==
    IF err # NoErr THEN Walked(acc.filenames, err)
    ELSE IF Ext(path) = MbtilesExt THEN Walked(Append(acc.filenames, path), NoErr)
    ELSE acc

\* the callback FindMBtiles gives to filepath.Walk
visit(path, err, siblings, acc) ==
    IF err # NoErr THEN Walked(acc.filenames, err)
    ELSE IF JournalExists(path, siblings) THEN acc
    ELSE IF Ext(path) = MbtilesExt THEN Walked(Append(acc.filenames, path), NoErr)
    ELSE acc

\* filepath.Walk below the root: a file is visited; a directory is read,
\* visited, and then walked child by child; the first error ends the walk
RECURSIVE walk(_, _, _, _)
RECURSIVE walkChildren(_, _, _, _)
walk(path, node, siblings, acc) ==
    IF node.kind = "file" THEN visit(path, NoErr, siblings, acc)
    ELSE IF ~node.readable THEN visit(path, ErrReadDir, siblings, acc)
    ELSE LET seen == visit(path, NoErr, siblings, acc)
         IN  IF seen.err # NoErr THEN seen
             ELSE walkChildren(path, node.children, 1, seen)

walkChildren(path, children, i, acc) ==
    IF i > Len(children) THEN acc
    ELSE LET done == walk(Append(path, children[i].name), children[i],
                          NamesOf(children), acc)
         IN  IF done.err # NoErr THEN done
             ELSE walkChildren(path, children, i + 1, done)

Found(filenames, err) == [op |-> "FindMBtiles", filenames |-> filenames, err |-> err]

\* FindMBtiles(path): the list and the error returned
findMBtiles(t) ==
    LET walked == IF t.stat # "ok"
                  THEN visit(<<t.root.name>>, ErrLstat, t.siblings, Walked(<<>>, NoErr))
                  ELSE walk(<<t.root.name>>, t.root, t.siblings, Walked(<<>>, NoErr))
    IN  IF walked.err # NoErr THEN Found(<<>>, walked.err)
        ELSE Found(walked.filenames, NoErr)

FindInit ==
    /\ file \in Trees
    /\ db = ZeroHandle
    /\ pool = NoPool
    /\ buf = NilBytes
    /\ ret = [op |-> "none", filenames |-> <<>>, err |-> NoErr]
    /\ calls = NoCalls
    /\ sqlite = NoConnections

FindMBtiles ==
    /\ ret' = findMBtiles(file)
    /\ UNCHANGED <<file, db, pool, buf, calls, sqlite>>

FindNext == FindMBtiles

SpecFind == FindInit /\ [][FindNext]_vars

(***************************************************************************)
(* Properties                                                              *)
(***************************************************************************)
\* db is a handle that Open returned
Opened == ~db.isnil /\ db.pool = "pool"
\* ... and Close has not been called on it
Live == Opened /\ ~pool.closed

Reads == {"ReadTile", "ReadMetadata"}

\* a table or view of that name exists
Lacks(name) == ~HasRelation(file.schema, name)

\* C1, as claimed: Open returns no handle and the matching error when the
\* path does not exist (path does not exist), when the -journal sibling
\* exists (incomplete tileset) and when the database lacks the tiles or the
\* metadata table (missing required tables); it never returns a handle
\* together with an error.
C1_OpenRejectsInvalid ==
    (ret.op = "Open" /\ ret.fault = NoFault) =>
        /\ ret.err # NoErr => db = NilHandle
        /\ file.stat = "notexist" => (ret.err = ErrPathNotExist /\ db = NilHandle)
        /\ (file.stat = "ok" /\ file.journal) => (ret.err = ErrJournal /\ db = NilHandle)
        /\ (file.stat = "ok" /\ ~file.journal /\ file.content = "db"
              /\ (Lacks("tiles") \/ Lacks("metadata")))
            => (ret.err = ErrMissingTables /\ db = NilHandle)

\* C2: on an open handle ReadTile returns no error; with no row at (z, x, y)
\* it sets the output to nil, and with such a row the output is the tile_data
\* of the first row at that address, byte for byte.
C2_ReadTileGivesStoredBytes ==
    (ret.op = "ReadTile" /\ ret.recv = "db" /\ Live) =>
        LET hits == {i \in 1..Len(file.tiles) :
                        <<file.tiles[i].z, file.tiles[i].x, file.tiles[i].y>> = ret.args}
        IN  /\ ret.err = NoErr
            /\ ret.fault = NoFault
            /\ hits = {} => buf = NilBytes
            /\ hits # {} =>
                 /\ ~buf.isnil
                 /\ \E i \in hits :
                      /\ \A j \in hits : i <= j
                      /\ Len(buf.bytes) = Len(file.tiles[i].data)
                      /\ buf.bytes = file.tiles[i].data

\* C2 witness: a read on an open handle of an address that two rows with
\* different payloads share returned the payload of the first
C2_Witness ==
    /\ ret.op = "ReadTile" /\ ret.recv = "db" /\ Live
    /\ Len(file.tiles) = 2
    /\ <<file.tiles[1].z, file.tiles[1].x, file.tiles[1].y>> = ret.args
    /\ <<file.tiles[2].z, file.tiles[2].x, file.tiles[2].y>> = ret.args
    /\ file.tiles[1].data # file.tiles[2].data
    /\ buf = Bytes(file.tiles[1].data)

\* C3, as claimed: once Close has been called on an opened handle, every
\* later ReadTile or ReadMetadata on it fails with the closed-handle error
\* and does not panic.
C3_ReadAfterCloseIsClosedError ==
    (ret.op \in Reads /\ ret.recv = "db" /\ Opened /\ pool.closed) =>
        (ret.fault = NoFault /\ ret.err = ErrClosed)

\* C4, as claimed: a second Close on an opened and closed handle does not
\* fault, and the pool is closed exactly once.
C4_CloseIsIdempotent ==
    /\ pool.closeCalls <= 1
    /\ (ret.op = "Close" /\ ret.recv = "db" /\ Opened) => ret.fault = NoFault

\* C5: on a never-opened handle (the zero value, and for the reads also the
\* nil pointer) nothing faults: Close does nothing, and ReadTile and
\* ReadMetadata return the closed-handle error without asking the pool for a
\* connection.
C5_NeverOpenedHandleIsSafe ==
    /\ (ret.op \in Reads /\ (ret.recv = "nil" \/ ~Opened)) =>
          /\ ret.fault = NoFault
          /\ ret.err = ErrClosed
          /\ ret.got = "none"
          /\ ret.md = NilMap
    /\ (ret.op = "Close" /\ ret.recv = "db" /\ ~db.isnil /\ ~Opened) =>
          /\ ret.fault = NoFault
          /\ ret.err = NoErr
          /\ db = ZeroHandle
          /\ pool = NoPool

\* C5 witness: Close on the zero-value handle returned
C5_Witness ==
    /\ ret.op = "Close" /\ ret.recv = "db" /\ db = ZeroHandle
    /\ ret.fault = NoFault

\* ReadMetadata was called on the open handle
MetaRead == ret.op = "ReadMetadata" /\ ret.recv = "db" /\ Live
\* ... and returned a map and no error
MetaOk == MetaRead /\ ret.fault = NoFault /\ ret.err = NoErr

ZoomKeys == {"minzoom", "maxzoom"}

\* the positions of the metadata rows named k
RowsNamed(k) == {i \in 1..Len(file.metadata) : file.metadata[i].name = k}

\* the fields of the json row at position i
JsonFields(i) ==
    LET doc == file.metadata[i].value.doc
    IN  {doc.fields[n] : n \in 1..Len(doc.fields)}

\* some json row has a field k
InJson(k) == \E i \in RowsNamed("json") : \E fl \in JsonFields(i) : fl.k = k

\* a row with a value other than the empty string, or a json field, has key k
Declared(k) ==
    \/ \E i \in RowsNamed(k) : file.metadata[i].value # Text(<<>>)
    \/ InJson(k)

\* C6, as claimed: every successful ReadMetadata result has the keys minzoom
\* and maxzoom, both with integer values, whatever the metadata rows are.
C6_ZoomsAreIntegers ==
    MetaOk => \A k \in ZoomKeys : k \in DOMAIN ret.md.kv /\ ret.md.kv[k].ty = "int"

\* C7, as claimed: when the scan of the metadata table ends without error and
\* at least one of minzoom/maxzoom is absent from the map, ReadMetadata
\* returns the map with both keys set to the least and the greatest
\* zoom_level of tiles and every other key as scanned; when both are present
\* it returns the map as scanned.
C7_ZoomsSupplementedFromTiles ==
    MetaRead =>
        LET scanned == scanRows(Selected(file.metadata), 1, EmptyMap)
            has(k) == k \in DOMAIN scanned.md.kv
        IN  (/\ HasRelation(file.schema, "metadata")
             /\ scanned.err = NoErr
             /\ scanned.fault = NoFault) =>
                /\ ret.fault = NoFault
                /\ ret.err = NoErr
                /\ (has("minzoom") /\ has("maxzoom")) => ret.md = scanned.md
                /\ ~(has("minzoom") /\ has("maxzoom")) =>
                      /\ ret.md.kv["minzoom"] = IntVal(MinZoom(file))
                      /\ ret.md.kv["maxzoom"] = IntVal(MaxZoom(file))
                      /\ \A k \in DOMAIN scanned.md.kv \ ZoomKeys :
                            k \in DOMAIN ret.md.kv /\ ret.md.kv[k] = scanned.md.kv[k]

\* C8, as claimed: in a successful result the json row is not stored under
\* "json" and the fields of a json object are keys of the map; a row with a
\* non-empty text that is the only row of its key, and whose key no json row
\* has as a field, is in the map converted by its key: minzoom/maxzoom to an
\* integer (the declared one when the other zoom key is declared too),
\* bounds/center to the numbers of its comma-delimited tokens, one per token
\* and in token order, any other key to the text itself.
C8_RowsConvertedByKey ==
    MetaOk =>
        /\ "json" \notin DOMAIN ret.md.kv
        /\ \A i \in RowsNamed("json") : \A fl \in JsonFields(i) : fl.k \in DOMAIN ret.md.kv
        /\ \A i \in 1..Len(file.metadata) :
              LET key == file.metadata[i].name
                  value == file.metadata[i].value
              IN  (/\ value.t = "text" /\ value.s # <<>>
                   /\ key # "json"
                   /\ RowsNamed(key) = {i}
                   /\ ~InJson(key)) =>
                      /\ key \in DOMAIN ret.md.kv
                      /\ key \in ZoomKeys =>
                            /\ ret.md.kv[key].ty = "int"
                            /\ (\A o \in ZoomKeys : Declared(o)) =>
                                  ret.md.kv[key] = IntVal(Atoi(value.s).v)
                      /\ key \in {"bounds", "center"} =>
                            /\ ret.md.kv[key] = FloatsVal(parseFloats(value.s).v)
                            /\ Len(ret.md.kv[key].f) = Len(Split(value.s))
                      /\ key \notin ZoomKeys \cup {"bounds", "center"} =>
                            ret.md.kv[key] = StrVal(value.s)

\* the row's value cannot be converted: a bounds or center text with a
\* non-numeric token, or a json text that is not valid JSON
BadRow(r) ==
    \/ r.name \in {"bounds", "center"} /\ r.value.t = "text" /\ r.value.s # <<>>
         /\ ~parseFloats(r.value.s).ok
    \/ r.name = "json" /\ r.value.t = "text" /\ r.value.s # <<>>

\* C9, as claimed: when some row of the metadata table has a bounds or center
\* value with a non-numeric token, or a json value that is not valid JSON,
\* ReadMetadata returns an error and the nil map, and does not panic,
\* whatever rows come before it.
C9_BadRowFailsWholeRead ==
    (MetaRead /\ \E i \in 1..Len(file.metadata) : BadRow(file.metadata[i])) =>
        (ret.fault = NoFault /\ ret.err # NoErr /\ ret.md = NilMap)

\* C10, as claimed: a successful result maps no key to the empty string, and
\* a table whose rows all hold the empty string, a minzoom or maxzoom row
\* among them, does not make the read fail with a parse error.
C10_NoEmptyStringInResult ==
    /\ MetaOk => \A k \in DOMAIN ret.md.kv : ret.md.kv[k] # StrVal(<<>>)
    /\ (/\ MetaRead
        /\ RowsNamed("minzoom") \cup RowsNamed("maxzoom") # {}
        /\ \A i \in 1..Len(file.metadata) : file.metadata[i].value = Text(<<>>))
          => (ret.fault = NoFault /\ ret.err = NoErr)

\* C10, amended: a metadata row whose stored value is the empty string is
\* treated as absent.  ReadMetadata gives what it gives on the table without
\* these rows; a key of a successful result is mapped to the empty string
\* only by a row whose value is NULL or a zero-length BLOB, or by an empty
\* field of a json row; and
\* a table that has rows, all of them empty, gives the map of the two zoom
\* keys taken from tiles, not a parse error.
C10_EmptyValueIsAbsent ==
    MetaRead =>
        LET kept == SelectSeq(file.metadata, LAMBDA r : r.value # Text(<<>>))
            without == readMetadata(db, pool, [file EXCEPT !.metadata = kept])
        IN  /\ ret.md = without.md /\ ret.err = without.err /\ ret.fault = without.fault
            /\ (ret.fault = NoFault /\ ret.err = NoErr) =>
                  \A k \in DOMAIN ret.md.kv :
                      ret.md.kv[k] = StrVal(<<>>) =>
                          \/ \E i \in RowsNamed(k) :
                                file.metadata[i].value \in {Null, Blob(<<>>)}
                          \/ \E i \in RowsNamed("json") : Field(k, StrVal(<<>>)) \in JsonFields(i)
            /\ (file.metadata # <<>> /\ kept = <<>>) =>
                  /\ ret.fault = NoFault
                  /\ ret.err = NoErr
                  /\ ret.md = SetKey(SetKey(EmptyMap, "minzoom", IntVal(MinZoom(file))),
                                     "maxzoom", IntVal(MaxZoom(file)))

\* C10 witness: a table holding an empty minzoom row and an empty name row
\* was read: the zooms come from tiles and the result has no key name
C10_Witness ==
    /\ MetaOk
    /\ file.metadata = <<Row("minzoom", Text(<<>>)), Row("name", Text(<<>>))>>
    /\ ret.md.kv["minzoom"] = IntVal(MinZoom(file))
    /\ "name" \notin DOMAIN ret.md.kv

\* C11: the format of an opened handle is neither GZIP nor UNKNOWN, and when
\* the first tile starts with the gzip signature 1f 8b GetTileFormat returns
\* PBF and GetTileSize returns 512.
C11_GzipIsStoredAsPbf ==
    Opened =>
        /\ GetTileFormat(db).val \notin {GZIP, UNKNOWN}
        /\ (Len(file.tiles[1].data) >= 2
              /\ file.tiles[1].data[1] = 31 /\ file.tiles[1].data[2] = 139) =>
              (GetTileFormat(db).val = PBF /\ GetTileSize(db).val = [hi |-> 0, lo |-> 512])

\* C11 witness: a container whose first tile is the gzip fixture was opened
C11_Witness ==
    /\ Opened /\ ret.op = "Open"
    /\ file.tiles[1].data = GzipTile
    /\ GetTileFormat(db).val = PBF
    /\ GetTileSize(db).val = U32(512)

\* C12: on an opened handle GetFilename is the path given to Open,
\* GetTimestamp is the modification time of the file rounded to the second,
\* GetTileFormat and GetTileSize are the format (gzip taken as PBF) and the
\* size detected on the first tile; and no ReadTile, ReadMetadata or Close
\* changes a field of the handle.
C12_HandleFieldsFixedAtOpen ==
    /\ [](Opened =>
            /\ GetFilename(db).val = Path
            /\ GetTimestamp(db).val =
                  file.mtime.sec + ((file.mtime.nsec + 500000000) \div 1000000000)
            /\ \E d \in detectTileFormat(file.tiles[1].data) :
                  /\ d.err = NoErr
                  /\ GetTileFormat(db).val = (IF d.val = GZIP THEN PBF ELSE d.val)
            /\ GetTileSize(db).val = detectTileSize(GetTileFormat(db).val, Bytes(file.tiles[1].data)).val)
    /\ [][Opened => db' = db]_vars

\* C12 witness: a file modified half a second after second 7 was opened,
\* closed and read, and the handle still has timestamp 8
C12_Witness ==
    /\ Opened /\ pool.closed /\ ret.op = "ReadMetadata"
    /\ file.mtime = [sec |-> 7, nsec |-> 500000000]
    /\ GetTimestamp(db).val = 8
    /\ GetFilename(db).val = Path

\* the buffer starts with the bytes sig
StartsWith(sig) == Len(buf.bytes) >= Len(sig) /\ SubSeq(buf.bytes, 1, Len(sig)) = sig

\* C13 (SpecSniff): detectTileFormat returns GZIP for a buffer starting with
\* 1f 8b, ZLIB for 78 9c, PNG for 89 50 4e 47 0d 0a 1a 0a, JPG for ff d8 ff,
\* WEBP for 52 49 46 46, each with no error, and UNKNOWN with the
\* could-not-detect error for any other buffer; it has one possible result,
\* whatever the order in which the signatures are tried.
C13_SignatureDecidesFormat ==
    ret.op = "detectTileFormat" =>
        LET expected ==
                CASE StartsWith(<<31, 139>>) -> GZIP
                  [] StartsWith(<<120, 156>>) -> ZLIB
                  [] StartsWith(<<137, 80, 78, 71, 13, 10, 26, 10>>) -> PNG
                  [] StartsWith(<<255, 216, 255>>) -> JPG
                  [] StartsWith(<<82, 73, 70, 70>>) -> WEBP
                  [] OTHER -> UNKNOWN
        IN  /\ ret.fault = NoFault
            /\ ret.fmt = expected
            /\ ret.err = (IF expected = UNKNOWN THEN ErrFormat ELSE NoErr)
            /\ Cardinality(detectTileFormat(buf.bytes)) = 1

\* C13 witness: a buffer holding seven of the eight bytes of the PNG
\* signature was given and found undetectable
C13_Witness ==
    /\ ret.op = "detectTileFormat"
    /\ buf.bytes = SubSeq(PngTile, 1, 7)
    /\ ret.fmt = UNKNOWN /\ ret.err = ErrFormat

\* detectTileSize was called with this format
SizeOf(format) == ret.op = "detectTileSize" /\ ret.format = format

\* the chunk tag at bytes 12..15 of the buffer
HasTag(tag) == Len(buf.bytes) >= 16 /\ SubSeq(buf.bytes, 13, 16) = tag

\* C14 (SpecSniff): detectTileSize(PNG, buf) returns, for a buffer of 20
\* bytes or more, the big-endian 32-bit number of bytes 16..19 and no error,
\* and for a shorter buffer size 0 and an error.
C14_PngWidthIsBigEndian ==
    SizeOf(PNG) =>
        /\ ret.fault = NoFault
        /\ Len(buf.bytes) >= 20 =>
              /\ ret.err = NoErr
              /\ ret.size.hi = buf.bytes[17] * 256 + buf.bytes[18]
              /\ ret.size.lo = buf.bytes[19] * 256 + buf.bytes[20]
        /\ Len(buf.bytes) < 20 => (ret.err # NoErr /\ ret.size = U32(0))

\* C14 witness: the width bytes 00 01 ff 02 were read as 0x0001ff02
C14_Witness ==
    /\ SizeOf(PNG)
    /\ buf.bytes = WithBytes(PngTile, 16, <<0, 1, 255, 2>>)
    /\ ret.size = [hi |-> 1, lo |-> 65282]
    /\ ret.err = NoErr

\* C15 (SpecSniff), as claimed: detectTileSize(WEBP, buf) on a buffer with
\* tag "VP8 " returns, for 27 bytes or more, ((buf[27] & 0x3f) << 8) | buf[26]
\* and no error, and for a shorter buffer an error.
C15_LossyWidthFrom27Bytes ==
    (SizeOf(WEBP) /\ HasTag(<<86, 80, 56, 32>>)) =>
        /\ ret.fault = NoFault
        /\ Len(buf.bytes) >= 27 =>
              /\ ret.err = NoErr
              /\ ret.size = U32((buf.bytes[28] % 64) * 256 + buf.bytes[27])
        /\ Len(buf.bytes) < 27 => ret.err # NoErr

\* C16 (SpecSniff): detectTileSize(WEBP, buf) on a buffer with tag "VP8L"
\* returns, for 23 bytes or more, ((bytes 21..22 as a little-endian 16-bit
\* number) & 0x1ff) + 1 and no error, a value in 1..512, and for a shorter
\* buffer an error.
C16_LosslessWidth ==
    (SizeOf(WEBP) /\ HasTag(<<86, 80, 56, 76>>)) =>
        /\ ret.fault = NoFault
        /\ Len(buf.bytes) >= 23 =>
              /\ ret.err = NoErr
              /\ ret.size.hi = 0
              /\ ret.size.lo = ((buf.bytes[22] + 256 * buf.bytes[23]) % 512) + 1
              /\ ret.size.lo \in 1..512
        /\ Len(buf.bytes) < 23 => ret.err # NoErr

\* C16 witness: the lossless fixture gave 400
C16_Witness ==
    /\ SizeOf(WEBP)
    /\ buf.bytes = WebpLosslessTile
    /\ ret.size = U32(400)
    /\ ret.err = NoErr

\* C17 (SpecSniff): detectTileSize(GZIP, buf) and detectTileSize(PBF, buf)
\* return 512 and no error for every buffer, the empty one included.
C17_VectorTilesAre512 ==
    (SizeOf(GZIP) \/ SizeOf(PBF)) =>
        (ret.fault = NoFault /\ ret.err = NoErr /\ ret.size = [hi |-> 0, lo |-> 512])

\* C17 witness: PBF and the empty buffer gave 512
C17_Witness ==
    /\ SizeOf(PBF)
    /\ buf.bytes = <<>>
    /\ ret.size = U32(512)

\* C18 (SpecSniff), as claimed: MimeType is image/png for PNG, image/jpeg for
\* JPG, image/webp for WEBP and the empty string for PBF, UNKNOWN, GZIP and
\* ZLIB.
C18_OnlyImagesHaveMimeType ==
    ret.op = "MimeType" =>
        ret.mime = (CASE ret.format = PNG -> "image/png"
                      [] ret.format = JPG -> "image/jpeg"
                      [] ret.format = WEBP -> "image/webp"
                      [] OTHER -> "")

\* C18 (SpecSniff), amended: MimeType is image/png for PNG, image/jpeg for
\* JPG, image/webp for WEBP, application/x-protobuf for PBF, and the empty
\* string for UNKNOWN, GZIP and ZLIB; it depends on the format only.
C18_MimeTypeByFormat ==
    ret.op = "MimeType" =>
        /\ ret.format = PNG => ret.mime = "image/png"
        /\ ret.format = JPG => ret.mime = "image/jpeg"
        /\ ret.format = WEBP => ret.mime = "image/webp"
        /\ ret.format = PBF => ret.mime = "application/x-protobuf"
        /\ ret.format \in {UNKNOWN, GZIP, ZLIB} => ret.mime = ""

\* C18 witness: MimeType of PBF was asked for
C18_Witness ==
    /\ ret.op = "MimeType"
    /\ ret.format = PBF
    /\ ret.mime = "application/x-protobuf"

\* the name ends with the characters of suffix
EndsWith(name, suffix) ==
    /\ Len(name) >= Len(suffix)
    /\ SubSeq(name, Len(name) - Len(suffix) + 1, Len(name)) = suffix

\* every path of the tree: the root, its children, and their children
PathsUnder(t) ==
    LET kids == t.root.children
    IN  {<<t.root.name>>}
        \cup {<<t.root.name, kids[i].name>> : i \in 1..Len(kids)}
        \cup UNION {{<<t.root.name, kids[i].name, kids[i].children[j].name>> :
                        j \in 1..Len(kids[i].children)} : i \in 1..Len(kids)}

\* the names in the directory that holds the path
DirectoryOf(t, path) ==
    IF Len(path) = 1 THEN t.siblings
    ELSE IF Len(path) = 2 THEN NamesOf(t.root.children)
    ELSE UNION {IF t.root.children[i].name = path[2]
                THEN NamesOf(t.root.children[i].children) ELSE {} :
                    i \in 1..Len(t.root.children)}

\* every directory of the tree can be read
AllReadable(t) ==
    /\ t.root.readable
    /\ \A i \in 1..Len(t.root.children) : t.root.children[i].readable

\* the container Open finds at a path of the tree
ContainerAt(t, path) ==
    Container("ok", (path[Len(path)] \o JournalSuffix) \in DirectoryOf(t, path), "db",
              FullSchema, TypicalTiles, TypicalMetadata, [sec |-> 7, nsec |-> 0])

\* C19 (SpecFind): when dir exists and its directories can be read,
\* FindMBtiles(dir) returns no error and exactly the paths of the tree whose
\* name ends in .mbtiles and that have no <path>-journal beside them, each
\* once, the empty list when there is none; when dir does not exist it
\* returns an error and no list; and Open's -journal check rejects none of
\* the paths returned.
C19_FindsMbtilesWithoutJournal ==
    ret.op = "FindMBtiles" =>
        LET returned == {ret.filenames[i] : i \in 1..Len(ret.filenames)}
        IN  /\ file.stat # "ok" => (ret.err # NoErr /\ ret.filenames = <<>>)
            /\ (file.stat = "ok" /\ AllReadable(file)) =>
                  /\ ret.err = NoErr
                  /\ returned =
                        {p \in PathsUnder(file) :
                            /\ EndsWith(p[Len(p)], MbtilesExt)
                            /\ (p[Len(p)] \o JournalSuffix) \notin DirectoryOf(file, p)}
                  /\ Cardinality(returned) = Len(ret.filenames)
            /\ \A p \in returned :
                  \A v \in validateAndGetFormatAndSize(ContainerAt(file, p)) :
                      v.err # ErrJournal

\* C19 witness: the directory holds a.mbtiles with its journal and b.mbtiles,
\* and a subdirectory d holds a.mbtiles alone: b.mbtiles and d/a.mbtiles are
\* returned
C19_Witness ==
    /\ ret.op = "FindMBtiles"
    /\ file.root.name = <<"r">>
    /\ NamesOf(file.root.children) =
          {FileNames[3], FileNames[4], FileNames[5], <<"d">>}
    /\ ret.filenames = <<<<(<<"r">>), FileNames[5]>>, <<(<<"r">>), <<"d">>, FileNames[3]>>>>

(***************************************************************************)
(* The order of Open's checks                                              *)
(***************************************************************************)
\* the container is one that the six checks of Open decide: the path is
\* missing or readable, and a readable file without journal is a database
DecidedByChecks ==
    /\ file.stat \in {"ok", "notexist"}
    /\ (file.stat = "ok" /\ ~file.journal) => file.content = "db"

\* what detectTileSize makes of the sampled tile, for the format of its
\* signature (gzip stored as PBF)
SampleSizes ==
    {detectTileSize(IF d.val = GZIP THEN PBF ELSE d.val, Bytes(file.tiles[1].data)) :
        d \in {e \in detectTileFormat(file.tiles[1].data) : e.err = NoErr}}

\* the first check of the six that fails on the container, 0 if none does
FirstFailedCheck ==
    IF file.stat = "notexist" THEN 1
    ELSE IF file.journal THEN 2
    ELSE IF Lacks("tiles") \/ Lacks("metadata") THEN 3
    ELSE IF file.tiles = <<>> THEN 4
    ELSE IF SampleSizes = {} THEN 5
    ELSE IF \E r \in SampleSizes : r.err # NoErr \/ r.fault # NoFault THEN 6
    ELSE 0

\* C21, as claimed: Open reports the first check that fails, in the order
\* path exists, no -journal sibling, both tables present, a tile row exists,
\* the format of the sampled tile is detectable, its size is detectable; it
\* returns that error and no handle, and a handle and no error when every
\* check passes.
C21_OpenReportsFirstFailedCheck ==
    (ret.op = "Open" /\ DecidedByChecks) =>
        /\ ret.fault = NoFault
        /\ (ret.err = NoErr) = (FirstFailedCheck = 0)
        /\ ret.err = NoErr => Opened
        /\ ret.err # NoErr => db = NilHandle
        /\ FirstFailedCheck = 1 => ret.err = ErrPathNotExist
        /\ FirstFailedCheck = 2 => ret.err = ErrJournal
        /\ FirstFailedCheck = 3 => ret.err = ErrMissingTables
        /\ FirstFailedCheck = 4 => ret.err = ErrEmptyTiles
        /\ FirstFailedCheck = 5 => ret.err = ErrFormat
        /\ FirstFailedCheck = 6 => ret.err \in {ErrPngShort, ErrJpeg, ErrWebpShort}

(***************************************************************************)
(* Reads and the connection pool                                           *)
(***************************************************************************)
\* the reads that hold a connection
Holding == calls.holding + (IF calls.mine = "hold" THEN 1 ELSE 0)

\* C22 (SpecPool): on an open handle every read in progress holds one
\* connection of the pool and every read that has ended, by a result, an
\* error or a panic, has put its connection back once: the free connections
\* and the reads holding one add up to the pool's capacity, and with no read
\* holding one all ten are free.
C22_ReadsReturnTheirConnection ==
    Live =>
        /\ pool.free + Holding = PoolSize
        /\ pool.free \in 0..PoolSize
        /\ Holding = 0 => pool.free = PoolSize

\* C22 witness: a read that failed, after which no read is in progress
C22_Witness ==
    /\ Live
    /\ ret.op \in Reads /\ ret.got = "con" /\ ret.err # NoErr
    /\ calls.mine = "idle" /\ calls.waiting = 0 /\ calls.holding = 0
    /\ pool.free = PoolSize

\* fair scheduling of the goroutines: a read that holds a connection goes
\* on to its end, and a read that waits in pool.Get gets a connection if
\* connections keep coming back
\* (the steps of EndRead and OtherEndRead are named by what they do to calls)
FairScheduling ==
    /\ WF_calls(ret.fault = NoFault /\ calls.mine = "hold"
                   /\ calls' = [calls EXCEPT !.mine = "idle"])
    /\ WF_calls(ret.fault = NoFault /\ calls.holding > 0
                   /\ calls' = [calls EXCEPT !.holding = @ - 1])
    /\ SF_vars(GetConnection)

\* C23 (SpecPool): a read that finds every connection taken waits, and then
\* some read holds a connection and can give it back (no deadlock); and
\* under fair scheduling a read that has started on the open handle ends,
\* also when it found every connection taken; the program keeps running
\* unless a read panics.
C23_StartedReadReturns ==
    /\ []((Live /\ calls.mine = "get" /\ pool.free = 0) => Holding > 0)
    /\ FairScheduling =>
          ((calls.mine # "idle") ~> (calls.mine = "idle" \/ ret.fault # NoFault))

\* C23 witness: more reads in progress than connections, and the caller's
\* read, which found the pool empty, has got its connection
C23_Witness ==
    /\ Live /\ ret.fault = NoFault
    /\ calls.waited /\ calls.mine = "hold"
    /\ calls.waiting + Holding > PoolSize

(***************************************************************************)
(* Short buffers, the extended WebP header, sizes that are not detected    *)
(***************************************************************************)
\* the number of bytes the width field of the format ends at; for WebP the
\* chunk tag has to be there first
NeededBytes ==
    CASE ret.format = PNG -> 20
      [] ret.format = WEBP /\ HasTag(<<86, 80, 56, 32>>) -> 28
      [] ret.format = WEBP /\ HasTag(<<86, 80, 56, 76>>) -> 23
      [] ret.format = WEBP /\ HasTag(<<86, 80, 56, 88>>) -> 26
      [] ret.format = WEBP /\ Len(buf.bytes) < 16 -> 16
      [] OTHER -> 0

\* C24, as claimed: detectTileSize does not fault, whatever the format and
\* the length of the buffer, and returns an error when the buffer ends
\* before the field it has to read.
C24_DetectTileSizeNeverFaults ==
    ret.op = "detectTileSize" =>
        /\ ret.fault = NoFault
        /\ Len(buf.bytes) < NeededBytes => ret.err # NoErr

\* C25, as claimed: detectTileSize(WEBP, buf) on a buffer with tag "VP8X"
\* returns, for 26 bytes or more, (bytes 24..25 as a little-endian 16-bit
\* number) + 1 and no error, and for a shorter buffer an error.
C25_ExtendedWidthFrom26Bytes ==
    (SizeOf(WEBP) /\ HasTag(<<86, 80, 56, 88>>)) =>
        /\ Len(buf.bytes) >= 26 =>
              /\ ret.fault = NoFault
              /\ ret.err = NoErr
              /\ ret.size = U32(buf.bytes[25] + 256 * buf.bytes[26] + 1)
        /\ Len(buf.bytes) < 26 => (ret.fault = NoFault /\ ret.err # NoErr)

\* the buffer has a chunk tag, and it is none of "VP8 ", "VP8L", "VP8X"
OtherTag ==
    /\ Len(buf.bytes) >= 16
    /\ SubSeq(buf.bytes, 13, 16) \notin
         {<<86, 80, 56, 32>>, <<86, 80, 56, 76>>, <<86, 80, 56, 88>>}

\* C26 (SpecSample): detectTileSize returns 0 and no error for every buffer
\* when the format is UNKNOWN or ZLIB, and when it is WEBP and the tag at
\* bytes 12..15 is none of "VP8 ", "VP8L", "VP8X"; and Open of a container
\* whose first tile is zlib data or such a RIFF file returns a handle with
\* that format and tile size 0.
C26_UndetectedSizeIsZero ==
    /\ (SizeOf(UNKNOWN) \/ SizeOf(ZLIB) \/ (SizeOf(WEBP) /\ OtherTag)) =>
          (ret.fault = NoFault /\ ret.err = NoErr /\ ret.size = U32(0))
    /\ (ret.op = "Open" /\ (StartsWith(<<120, 156>>) \/ (StartsWith(<<82, 73, 70, 70>>) /\ OtherTag))) =>
          /\ ret.fault = NoFault /\ ret.err = NoErr
          /\ Opened
          /\ GetTileSize(db).val = U32(0)
          /\ GetTileFormat(db).val = (IF StartsWith(<<120, 156>>) THEN ZLIB ELSE WEBP)

\* C26 witness: the container whose first tile is the WAVE header was opened
\* as WEBP with tile size 0
C26_Witness ==
    /\ ret.op = "Open" /\ ret.err = NoErr
    /\ buf.bytes = RiffWaveTile
    /\ Opened
    /\ GetTileFormat(db).val = WEBP /\ GetTileSize(db).val = U32(0)

\* C28: whenever Open returns an error (or panics), no connection that the
\* call opened is left open on the file; and when it succeeds, the single
\* connection of the checks is closed and the PoolSize connections of the
\* handle's pool are the only ones open.
C28_FailedOpenLeavesNoConnection ==
    ret.op = "Open" =>
        /\ (ret.err # NoErr \/ ret.fault # NoFault) => sqlite.onFile = 0
        /\ (ret.err = NoErr /\ ret.fault = NoFault) =>
              /\ Opened
              /\ sqlite.onFile = PoolSize

\* C28 witness: Open failed on a check made through the single connection,
\* and the connection is closed
C28_Witness ==
    /\ ret.op = "Open"
    /\ ret.err \in {ErrNotADb, ErrMissingTables, ErrEmptyTiles, ErrFormat}
    /\ db.isnil
    /\ sqlite.onFile = 0

\* what Open gives for the file: the error, and the fields of the handle
OpenGives ==
    LET modTime == fileModTime(file)
    IN  IF modTime.err # NoErr
        THEN {[err |-> modTime.err, fault |-> NoFault, format |-> UNKNOWN,
               timestamp |-> 0, tilesize |-> U32(0)]}
        ELSE {[err |-> v.err, fault |-> v.fault, format |-> v.format,
               timestamp |-> modTime.val, tilesize |-> v.tilesize] :
              v \in validateAndGetFormatAndSize(file)}

\* the handle came from OpenInMemory
InMemory == Opened /\ GetFilename(db).val = InMemoryPath

\* C27 (SpecMem): OpenInMemory ends as Open does for the same file: the same
\* panic, or the same error and no handle, or a handle with the same format,
\* tile size and timestamp, whose filename is the in-memory path; and
\* ReadTile and ReadMetadata on that handle return what they return on a
\* handle that Open gave for the file.
C27_OpenInMemoryLikeOpen ==
    /\ ret.op = "OpenInMemory" =>
          \E o \in OpenGives :
             /\ ret.err = o.err /\ ret.fault = o.fault
             /\ (o.fault = NoFault /\ o.err # NoErr) => db.isnil
             /\ (o.fault = NoFault /\ o.err = NoErr) =>
                   /\ InMemory
                   /\ GetTileFormat(db).val = o.format
                   /\ GetTileSize(db).val = o.tilesize
                   /\ GetTimestamp(db).val = o.timestamp
    /\ (InMemory /\ ret.op = "ReadTile" /\ ret.recv = "db") =>
          LET onFile == readTile(db, pool, file, ret.args[1], ret.args[2], ret.args[3], buf)
          IN  /\ ret.err = onFile.err
              /\ buf = onFile.data
    /\ (InMemory /\ ret.op = "ReadMetadata" /\ ret.recv = "db") =>
          LET onFile == readMetadata(db, pool, file)
          IN  /\ ret.err = onFile.err /\ ret.fault = onFile.fault
              /\ ret.md = onFile.md

\* the reads of C27 for a process that opens one tileset in memory
C27_AloneInMemory ==
    sqlite.inMemory <= PoolSize => C27_OpenInMemoryLikeOpen

====
